---- MODULE Spec2Model ----
(***************************************************************************)
(* Model of the debate orchestration engine, DebateOrchestrator, of        *)
(* src/src/orchestrator/orchestrator.ts: run (buffered, sequential) and    *)
(* runStreaming (one concurrent batch per round), buildMessages (what each *)
(* reviewer is sent), checkConvergence (the judge and its verdict parser), *)
(* the summary phase and the final conclusion.                             *)
(*                                                                         *)
(* Texts are modelled by what the templates put into them: a Turn's        *)
(* content is a tag (origin, reviewer, number) that no operation reads,    *)
(* a request message is the role, the reviewer ids its template names, and *)
(* the Turns it renders.  The judge's response is a sequence of characters *)
(* so that trim / toUpperCase / split act on it as they do in the code.    *)
(***************************************************************************)
EXTENDS Integers, Sequences, FiniteSets, TLC

\* ------------------------------------------------------------------ bounds
NumReviewers == 2
MaxRoundsBound == 3
MaxQA == 1
MaxInterjections == 1
MaxQuits == 1
MaxAtoms == 3
MaxHistory == 4
MaxRuns == 2

VARIABLES
  mode,                 \* "run" | "stream": which entry point was called
  runs,                 \* calls of run / runStreaming on this instance, this one included
  maxRounds,            \* options.maxRounds
  optCheckConvergence,  \* options.checkConvergence
  interactive,          \* options.interactive && options.onInteractive
  hasQA,                \* options.onPostAnalysisQA is supplied
  hasSession,           \* per reviewer: provider.sessionId !== undefined
  observed,             \* onMessage, onWaiting, onRoundComplete, onParallelStatus are supplied
  conversationHistory,  \* this.conversationHistory
  lastSeenIndex,        \* this.lastSeenIndex (0-based index, -1 when absent)
  analysis,             \* this.analysis: the run whose pre-analysis it holds, 0 when empty
  pc,                   \* position of the run
  round,                \* the loop variable `round`
  idx,                  \* position in `for (const reviewer of this.reviewers)`
  reviewerTasks,        \* the requests built for the current round
  statuses,             \* ReviewerStatus of the current batch
  results,              \* responses buffered by Promise.all
  convergedAtRound,     \* 0 when undefined
  summaryTasks,         \* requests built in collectSummaries
  summaries,            \* reviewer ids of the summaries collected, in order
  delivered,            \* per reviewer: the Turns rendered into its requests so far
  judgeCalls,           \* per round: calls of the judge agent
  judgeInput,           \* lastRoundMessages of the last judge call
  qaCount,              \* questions routed so far
  qaTarget,             \* the reviewer answering the question in flight
  interjections,        \* human interjections appended so far
  quits,                \* 'q' answers of the interjection provider so far
  tokenUsage,           \* this.tokenUsage: per participant, input and output
  endTime,              \* statuses[index].endTime, as the rank of completion
  log,                  \* agent calls issued and provider answers, in order
  finalPrompt,          \* the prompt getFinalConclusion sends to the summarizer
  emitted,              \* per event callback: how often it has been invoked
  sessions,             \* per provider: startSession and endSession calls of this run
  response,             \* the judge agent's raw response (parser specification)
  verdict               \* what checkConvergence returned for it

vars == <<mode, runs, maxRounds, optCheckConvergence, interactive, hasQA, hasSession,
          observed, emitted, sessions,
          conversationHistory, lastSeenIndex, analysis, pc, round, idx,
          reviewerTasks, statuses, results, convergedAtRound, summaryTasks,
          summaries, delivered, judgeCalls, judgeInput, qaCount, qaTarget,
          interjections, quits, tokenUsage, endTime, log, finalPrompt, response,
          verdict>>

optionVars == <<mode, runs, maxRounds, optCheckConvergence, interactive, hasQA, hasSession,
                observed>>
parseVars == <<response, verdict>>

\* --------------------------------------------------------------- data model
Reviewers == 1..NumReviewers
\* reviewerId 'user' of a human Turn
Human == 0
NoReviewer == 0 - 1
\* targetReviewer after a lookup that found no reviewer
Unmatched == 0 - 4
\* The ids 'analyzer' and 'summarizer' of the token table.
Analyzer == 0 - 2
Summarizer == 0 - 3
Participants == Reviewers \cup {Analyzer, Summarizer}
NoContent == [src |-> "none", rev |-> NoReviewer, n |-> 0]
NoRequest == <<>>

Turn(id, c) == [reviewerId |-> id, content |-> c]
RoundTurn(id, r) == Turn(id, [src |-> "round", rev |-> id, n |-> r])

\* ------------------------------------------- estimateTokens, trackTokens
\* The length every free text (prompt, question, template, response) is given.
TextChars == 6

\* Math.ceil(text.length / 4)
estimateTokens(len) == (len + 3) \div 4

NoUsage == [p \in Participants |-> [input |-> 0, output |-> 0]]

\* A token table that keeps the last estimate instead of the running total.
trackTokensOverwrite(usage, id, inputLen, outputLen) ==
  [usage EXCEPT ![id] = [input |-> estimateTokens(inputLen),
                         output |-> estimateTokens(outputLen)]]

\* trackTokens (41-46) on texts of the given lengths
trackTokens(usage, id, inputLen, outputLen) ==
  [usage EXCEPT ![id] = [input |-> @.input + estimateTokens(inputLen),
                         output |-> @.output + estimateTokens(outputLen)]]

\* One entry of the log: an agent call issued ("analyze", "qa", "round",
\* "judge", "summary", "conclusion"), an answer of the interjection provider
\* ("quit", "interject", "nothing") or a call that threw ("fail").
Event(kind, who, r) == [kind |-> kind, who |-> who, round |-> r]

\* ------------------------------------------------------------ seq helpers
RECURSIVE SeqToSet(_)
SeqToSet(s) == IF s = <<>> THEN {} ELSE {Head(s)} \cup SeqToSet(Tail(s))

RECURSIVE CountBy(_, _)
CountBy(h, id) ==
  IF h = <<>> THEN 0
  ELSE (IF Head(h).reviewerId = id THEN 1 ELSE 0) + CountBy(Tail(h), id)

RECURSIVE FilterBy(_, _)
FilterBy(h, id) ==
  IF h = <<>> THEN <<>>
  ELSE (IF Head(h).reviewerId = id THEN <<Head(h)>> ELSE <<>>) \o FilterBy(Tail(h), id)

\* -------------------------------------------------- buildMessages (388-496)
\* One request message: its role, the template it was rendered from, the
\* reviewer ids the template names, the Turns whose content it carries, and
\* whether it carries the task prompt and the pre-analysis text.
Message(role, kind, names, turns, withAnalysis) ==
  [role |-> role, kind |-> kind, names |-> names, turns |-> turns,
   analysis |-> withAnalysis]

\* this.lastSeenIndex.get(id) ?? -1, and isFirstCall
isFirstCall(id) == lastSeenIndex[id] < 0

\* this.conversationHistory.filter(m => m.reviewerId === id).length
myMessageCount(h, id) == CountBy(h, id)

\* this.reviewers.filter(r => r.id !== id).map(r => r.id)
otherReviewerIds(id) == Reviewers \ {id}

ZeroCount == [r \in Reviewers |-> 0]

\* The filter that fills previousRoundsMessages, with its running
\* messageCountByReviewer.
RECURSIVE PrevFilter(_, _, _, _)
PrevFilter(h, me, m, cnt) ==
  IF h = <<>> THEN <<>>
  ELSE LET msg == Head(h) IN
    IF msg.reviewerId = me THEN PrevFilter(Tail(h), me, m, cnt)
    ELSE IF msg.reviewerId = Human THEN <<msg>> \o PrevFilter(Tail(h), me, m, cnt)
    ELSE IF cnt[msg.reviewerId] < m
      THEN <<msg>> \o PrevFilter(Tail(h), me, m,
                                 [cnt EXCEPT ![msg.reviewerId] = @ + 1])
      ELSE PrevFilter(Tail(h), me, m, cnt)

\* A request builder that forgets the per-reviewer cut: every Turn of the
\* other reviewers, whatever its round.
previousRoundsMessagesUncut(h, me, m) ==
  SelectSeq(h, LAMBDA msg : msg.reviewerId # me)

\* A cut that lets through one Turn more of every other reviewer.
previousRoundsMessagesOneMore(h, me, m) ==
  PrevFilter(h, me, m + 1, ZeroCount)

previousRoundsMessages(h, me, m) ==
  PrevFilter(h, me, m, ZeroCount)

\* The filter that fills newMessages in session mode, with its running
\* messageCountByReviewer2.
RECURSIVE NewFilter(_, _, _)
NewFilter(p, prevRoundCount, cnt) ==
  IF p = <<>> THEN <<>>
  ELSE LET msg == Head(p) IN
    IF msg.reviewerId = Human THEN <<msg>> \o NewFilter(Tail(p), prevRoundCount, cnt)
    ELSE (IF cnt[msg.reviewerId] >= prevRoundCount THEN <<msg>> ELSE <<>>)
         \o NewFilter(Tail(p), prevRoundCount,
                      [cnt EXCEPT ![msg.reviewerId] = @ + 1])

newMessages(h, me) ==
  NewFilter(previousRoundsMessages(h, me, myMessageCount(h, me)),
            myMessageCount(h, me) - 1, ZeroCount)

\* The ids of the `[id]: ` prefixes session mode renders ('user' is no reviewer).
PrefixIds(turns) == {t.reviewerId : t \in SeqToSet(turns)} \ {Human}

\* One role-user message per previous Turn, prefixed '[Human]: ' or '[id]: '.
RECURSIVE ContextMessages(_)
ContextMessages(p) ==
  IF p = <<>> THEN <<>>
  ELSE <<Message("user", "turn", PrefixIds(<<Head(p)>>), <<Head(p)>>, FALSE)>>
       \o ContextMessages(Tail(p))

\* One role-assistant message per own Turn, content only.
RECURSIVE OwnMessages(_)
OwnMessages(own) ==
  IF own = <<>> THEN <<>>
  ELSE <<Message("assistant", "own", {}, <<Head(own)>>, FALSE)>>
       \o OwnMessages(Tail(own))

\* A builder that sends nothing when a session has nothing new to be told.
buildMessagesNothingNew(h, id) ==
  IF isFirstCall(id)
  THEN <<Message("user", "first", {id}, <<>>, TRUE)>>
  ELSE IF hasSession[id]
  THEN IF newMessages(h, id) = <<>>
       THEN <<>>
       ELSE <<Message("user", "session",
                      {id} \cup PrefixIds(newMessages(h, id)),
                      newMessages(h, id), FALSE)>>
  ELSE <<Message("user", "context", {id} \cup otherReviewerIds(id), <<>>, TRUE)>>
       \o ContextMessages(previousRoundsMessages(h, id, myMessageCount(h, id)))
       \o OwnMessages(FilterBy(h, id))

buildMessages(h, id) ==
  IF isFirstCall(id)
  THEN <<Message("user", "first", {id}, <<>>, TRUE)>>
  ELSE IF hasSession[id]
  THEN IF newMessages(h, id) = <<>>
       THEN <<Message("user", "continue", {}, <<>>, FALSE)>>
       ELSE <<Message("user", "session",
                      {id} \cup PrefixIds(newMessages(h, id)),
                      newMessages(h, id), FALSE)>>
  ELSE <<Message("user", "context", {id} \cup otherReviewerIds(id), <<>>, TRUE)>>
       \o ContextMessages(previousRoundsMessages(h, id, myMessageCount(h, id)))
       \o OwnMessages(FilterBy(h, id))

\* collectSummaries: buildMessages plus the summary instruction.
SummaryMessages(h, id) ==
  buildMessages(h, id) \o <<Message("user", "summarize", {}, <<>>, FALSE)>>

\* What a request shows: the Turns it renders, and the reviewer ids its text
\* holds (template ids, prefix ids, and the target a Q&A question names).
RECURSIVE TurnsIn(_)
TurnsIn(msgs) ==
  IF msgs = <<>> THEN {} ELSE SeqToSet(Head(msgs).turns) \cup TurnsIn(Tail(msgs))

MentionedIn(t) == IF t.content.src = "question" THEN {t.content.rev} ELSE {}

RECURSIVE NamesIn(_)
NamesIn(msgs) ==
  IF msgs = <<>> THEN {}
  ELSE Head(msgs).names
       \cup UNION {MentionedIn(t) : t \in SeqToSet(Head(msgs).turns)}
       \cup NamesIn(Tail(msgs))

\* messages.map(m => m.content).join('\n') + systemPrompt: the length of the
\* input text of a request (each message's template, the Turns it renders,
\* and the system prompt).
RECURSIVE inputLength(_)
inputLength(msgs) ==
  IF msgs = <<>> THEN TextChars
  ELSE TextChars * (1 + Len(Head(msgs).turns)) + inputLength(Tail(msgs))

\* A cursor update that marks every reviewer.
markAllAsSeen(seen, h, id) == [r \in Reviewers |-> Len(h) - 1]

\* A cursor that is set to the length of the history.
markAsSeenOffByOne(seen, h, id) == [seen EXCEPT ![id] = Len(h)]

\* markAsSeen (499-501), after h has become the history
markAsSeen(seen, h, id) == [seen EXCEPT ![id] = Len(h) - 1]

\* --------------------------------------------- checkConvergence (63-116)
\* Characters of a response; a response is a sequence of characters.
Whitespace == {" ", "\n"}
AtomConverged == <<"C", "O", "N", "V", "E", "R", "G", "E", "D">>
AtomLower == <<"c", "o", "n", "v", "e", "r", "g", "e", "d">>
AtomMixed == <<"C", "o", "n", "v", "e", "r", "g", "e", "d">>
AtomNot == <<"N", "O", "T", "_">>
AtomDot == <<".">>
AtomSpace == <<" ">>
AtomNewline == <<"\n">>
Atoms == {AtomConverged, AtomLower, AtomMixed, AtomNot, AtomDot, AtomSpace, AtomNewline}

RECURSIVE ResponsesUpTo(_)
ResponsesUpTo(n) ==
  IF n = 0 THEN {<<>>}
  ELSE ResponsesUpTo(n - 1)
       \cup {a \o r : a \in Atoms, r \in ResponsesUpTo(n - 1)}

\* The responses the judge agent may give.
Responses == ResponsesUpTo(MaxAtoms)

\* String.prototype.trim: strip the whitespace at both ends.
RECURSIVE TrimStart(_)
TrimStart(s) ==
  IF s # <<>> /\ Head(s) \in Whitespace THEN TrimStart(Tail(s)) ELSE s

RECURSIVE TrimEnd(_)
TrimEnd(s) ==
  IF s # <<>> /\ s[Len(s)] \in Whitespace
  THEN TrimEnd(SubSeq(s, 1, Len(s) - 1)) ELSE s

\* A parser that forgets to trim.
TrimNothing(s) == s

Trim(s) == TrimEnd(TrimStart(s))

\* String.prototype.toUpperCase on the characters that occur.
UpperChar(c) ==
  CASE c = "c" -> "C" [] c = "o" -> "O" [] c = "n" -> "N" [] c = "v" -> "V"
    [] c = "e" -> "E" [] c = "r" -> "R" [] c = "g" -> "G" [] c = "d" -> "D"
    [] OTHER -> c

toUpperCase(s) == [i \in 1..Len(s) |-> UpperChar(s[i])]

\* String.prototype.split(/\s+/): the pieces between maximal runs of
\* whitespace; a separator at either end leaves an empty piece there, and the
\* empty string splits into one empty piece.
RECURSIVE SplitFrom(_, _)
SplitFrom(s, cur) ==
  IF s = <<>> THEN <<cur>>
  ELSE IF Head(s) \in Whitespace
       THEN <<cur>> \o SplitFrom(TrimStart(s), <<>>)
       ELSE SplitFrom(Tail(s), Append(cur, Head(s)))

split(s) == SplitFrom(s, <<>>)

\* Lines 112-115: result, firstWord, and the comparison.
parseVerdict(resp) == split(toUpperCase(Trim(resp)))[1] = AtomConverged

\* Lines 64-75: the two early returns that answer false without a call.
roundsCompleted(h) == Len(h) \div NumReviewers

needsJudge(h) ==
  /\ ~(Len(h) < NumReviewers)
  /\ ~(roundsCompleted(h) < 2)

\* this.conversationHistory.slice(-this.reviewers.length)
lastRoundMessages(h) ==
  SubSeq(h, (IF Len(h) > NumReviewers THEN Len(h) - NumReviewers + 1 ELSE 1), Len(h))

\* A convergence check that is made only for a caller that listens to
\* onRoundComplete.
shouldCheckWhenObserved(r) == optCheckConvergence /\ r < maxRounds /\ observed

\* `this.options.checkConvergence && round < this.options.maxRounds`, tested
\* off by one.
shouldCheckOffByOne(r) == optCheckConvergence /\ r <= maxRounds

shouldCheck(r) == optCheckConvergence /\ r < maxRounds

\* A round loop that runs one round more.
loopContinuesOneMore(r) == r <= maxRounds + 1

\* `round <= this.options.maxRounds`, tested off by one.
loopContinuesOffByOne(r) == r < maxRounds

loopContinues(r) == r <= maxRounds

\* ------------------------------------------- getFinalConclusion (524-540)
\* The response of reviewer r's agent to its summary request.
SummaryText(r) == [src |-> "summary", rev |-> r, n |-> 0]

NoPrompt == [count |-> 0, names |-> {}, parts |-> <<>>]

\* A prompt that labels each summary with the id of its reviewer.
finalConclusionPromptById(sums) ==
  [count |-> Len(sums),
   names |-> {sums[i] : i \in 1..Len(sums)},
   parts |-> [i \in 1..Len(sums) |-> [label |-> sums[i], text |-> SummaryText(sums[i])]]]

\* The prompt of lines 525-534: the number of summaries, then each summary
\* under `Reviewer ${i + 1}`; no reviewer id is rendered.
finalConclusionPrompt(sums) ==
  [count |-> Len(sums),
   names |-> {},
   parts |-> [i \in 1..Len(sums) |-> [label |-> i, text |-> SummaryText(sums[i])]]]

\* ------------------------------------------------- the event callbacks
NoEvents == [waiting |-> 0, message |-> 0, status |-> 0, roundComplete |-> 0]

\* this.options.onWaiting?.(), onMessage?.(), onParallelStatus?.() and
\* onRoundComplete?.() invoked w, m, s and c times: each call is made only
\* if the callback is supplied, and its return value is dropped.
Notify(w, m, s, c) ==
  emitted' = IF observed
             THEN [waiting |-> emitted.waiting + w,
                   message |-> emitted.message + m,
                   status |-> emitted.status + s,
                   roundComplete |-> emitted.roundComplete + c]
             ELSE emitted

\* ----------------------------------------- sessions (210-215, 378-385)
NoSessions == [p \in Participants |-> [started |-> 0, ended |-> 0]]

\* `provider.startSession?.()` acts on a provider that implements the session
\* lifecycle: the analyzer's, the summarizer's, and a reviewer's whose
\* sessionId is then defined.
hasLifecycle(p) == p \in Reviewers => hasSession[p]

\* Lines 211-215: startSession on every reviewer, the analyzer, the summarizer.
startSessions(s) ==
  [p \in Participants |->
     IF hasLifecycle(p) THEN [s[p] EXCEPT !.started = @ + 1] ELSE s[p]]

\* Lines 380-384: endSession on every reviewer, the analyzer, the summarizer.
endSessions(s) ==
  [p \in Participants |->
     IF hasLifecycle(p) THEN [s[p] EXCEPT !.ended = @ + 1] ELSE s[p]]

\* run starts no session; runStreaming starts them before its try block.
SessionsAtStart(m) == IF m = "stream" THEN startSessions(NoSessions) ELSE NoSessions

\* Sessions that are ended by a statement after the try block, which a
\* thrown error skips.
endSessionsAfterTry(s, threw) ==
  IF mode = "stream" /\ ~threw THEN endSessions(s) ELSE s

\* The finally block of runStreaming (378-385): it runs when the result is
\* returned and when an error leaves the try block; run has none.
finallyEndSessions(s, threw) ==
  IF mode = "stream" THEN endSessions(s) ELSE s

\* ------------------------------------------------------------------- Init
NoTasks == [r \in Reviewers |-> NoRequest]
NoResults == [r \in Reviewers |-> NoContent]
\* Statuses that start as thinking.
AllThinking == [r \in Reviewers |-> "thinking"]
\* Lines 294-297: every reviewer pending.
AllPending == [r \in Reviewers |-> "pending"]
NoEndTimes == [r \in Reviewers |-> 0]

\* The state once run / runStreaming has reset its fields (126-130, 203-208)
\* and issued the analyzer call.  run never reads onPostAnalysisQA.
RunState ==
  /\ conversationHistory = <<>>
  /\ lastSeenIndex = [r \in Reviewers |-> 0 - 1]
  /\ analysis = 0
  /\ round = 1
  /\ idx = 1
  /\ reviewerTasks = NoTasks
  /\ statuses = AllPending
  /\ results = NoResults
  /\ convergedAtRound = 0
  /\ summaryTasks = NoTasks
  /\ summaries = <<>>
  /\ delivered = [r \in Reviewers |-> {}]
  /\ judgeCalls = [r \in 1..(MaxRoundsBound + 1) |-> 0]
  /\ judgeInput = <<>>
  /\ qaCount = 0
  /\ qaTarget = NoReviewer
  /\ interjections = 0
  /\ quits = 0
  /\ tokenUsage = NoUsage
  /\ endTime = NoEndTimes
  /\ log = <<Event("analyze", Analyzer, 0)>>
  /\ finalPrompt = NoPrompt
  /\ emitted = NoEvents
  /\ sessions = SessionsAtStart(mode)

Init ==
  /\ mode \in {"run", "stream"}
  /\ runs = 1
  /\ maxRounds \in 1..MaxRoundsBound
  /\ optCheckConvergence \in BOOLEAN
  /\ interactive \in BOOLEAN
  /\ hasQA \in (IF mode = "stream" THEN BOOLEAN ELSE {FALSE})
  /\ hasSession \in [Reviewers -> BOOLEAN]
  /\ observed = FALSE
  /\ RunState
  /\ pc = "analyze"
  /\ response = <<>>
  /\ verdict = "none"

\* What the interjection provider may return: 'q', nothing, or a text.
Inputs == {"q", "null", "text"}

HumanTurn(h) == Turn(Human, [src |-> "human", rev |-> Human, n |-> Len(h) + 1])

\* An interjection that is put in front of the History.
InterjectedInFront(h, input) == IF input = "text" THEN <<HumanTurn(h)>> \o h ELSE h

\* Lines 141-150 / 277-284: the history after the provider's answer.
Interjected(h, input) == IF input = "text" THEN Append(h, HumanTurn(h)) ELSE h

CanInput(input) == input = "text" => interjections < MaxInterjections

\* What the log gains when the provider, if there is one, has answered.
Answered(input, r) ==
  IF ~interactive THEN <<>>
  ELSE <<Event((IF input = "text" THEN "interject" ELSE "nothing"), Human, r)>>

Deliver(d, id, msgs) == [d EXCEPT ![id] = @ \cup TurnsIn(msgs)]

\* ------------------------------------------------------------ pre-analysis
\* preAnalyze (118-123) / the streamed analysis (218-227) returns.
PreAnalyze ==
  /\ pc = "analyze"
  /\ analysis' = runs
  /\ tokenUsage' = trackTokens(tokenUsage, Analyzer, TextChars + TextChars, TextChars)
  /\ pc' = IF mode = "stream" THEN "qa" ELSE "runNext"
  /\ IF mode = "stream" THEN Notify(1, 1, 0, 0) ELSE Notify(0, 0, 0, 0)
  /\ UNCHANGED <<optionVars, sessions, finalPrompt, endTime, log, quits, parseVars, conversationHistory, lastSeenIndex, round,
                 idx, reviewerTasks, statuses, results, convergedAtRound,
                 summaryTasks, summaries, delivered, judgeCalls, judgeInput,
                 qaCount, qaTarget, interjections>>

\* ------------------------------------------------ post-analysis Q&A (229-271)
\* No provider, or the provider answers null: proceed to the debate.
QAProceed ==
  /\ pc = "qa"
  /\ qaTarget' = NoReviewer
  /\ pc' = "streamRound"
  /\ UNCHANGED <<optionVars, sessions, emitted, finalPrompt, tokenUsage, endTime, log, quits, parseVars, conversationHistory, lastSeenIndex, analysis,
                 round, idx, reviewerTasks, statuses, results, convergedAtRound,
                 summaryTasks, summaries, delivered, judgeCalls, judgeInput,
                 qaCount, interjections>>

\* qa.target as typed: a reviewer's id or a name no reviewer has, with or
\* without a leading '@', in lower or in upper case.
Targets == [at : BOOLEAN, upper : BOOLEAN, id : 1..(NumReviewers + 1)]

\* The id of reviewer r as configured.
reviewerName(r) == [at |-> FALSE, upper |-> FALSE, id |-> r]

\* qa.target.replace(/^@/, '')
stripAt(target) == [target EXCEPT !.at = FALSE]

toLowerCase(name) == [name EXCEPT !.upper = FALSE]

\* this.reviewers.find(r => r.id.toLowerCase() === targetId.toLowerCase())
findReviewer(target) ==
  IF \E r \in Reviewers : toLowerCase(reviewerName(r)) = toLowerCase(stripAt(target))
  THEN CHOOSE r \in Reviewers : toLowerCase(reviewerName(r)) = toLowerCase(stripAt(target))
  ELSE Unmatched

\* An unknown target that is taken for the end of the Q&A phase.
QAInvalidTargetEndsPhase(target) ==
  /\ pc = "qa"
  /\ hasQA
  /\ findReviewer(target) = Unmatched
  /\ qaTarget' = findReviewer(target)
  /\ pc' = "streamRound"
  /\ UNCHANGED <<optionVars, sessions, emitted, finalPrompt, tokenUsage, endTime, log, quits, parseVars, conversationHistory,
                 lastSeenIndex, analysis, round, idx, reviewerTasks, statuses, results,
                 convergedAtRound, summaryTasks, summaries, delivered, judgeCalls,
                 judgeInput, qaCount, interjections>>

\* The target matches no reviewer: `continue`, and the provider is asked again.
QAInvalidTarget(target) ==
  /\ pc = "qa"
  /\ hasQA
  /\ findReviewer(target) = Unmatched
  /\ qaTarget' = findReviewer(target)
  /\ UNCHANGED <<optionVars, sessions, emitted, finalPrompt, tokenUsage, endTime, log, quits, parseVars, conversationHistory, lastSeenIndex, analysis,
                 pc, round, idx, reviewerTasks, statuses, results, convergedAtRound,
                 summaryTasks, summaries, delivered, judgeCalls, judgeInput,
                 qaCount, interjections>>

\* A question for a reviewer: its agent is called with the question alone.
QAAsk(target) ==
  /\ pc = "qa"
  /\ hasQA
  /\ qaCount < MaxQA
  /\ findReviewer(target) # Unmatched
  /\ qaCount' = qaCount + 1
  /\ qaTarget' = findReviewer(target)
  /\ log' = Append(log, Event("qa", findReviewer(target), 0))
  /\ pc' = "qaCall"
  /\ Notify(1, 0, 0, 0)
  /\ UNCHANGED <<optionVars, sessions, finalPrompt, tokenUsage, endTime, quits, parseVars, conversationHistory, lastSeenIndex, analysis,
                 round, idx, reviewerTasks, statuses, results, convergedAtRound,
                 summaryTasks, summaries, delivered, judgeCalls, judgeInput,
                 interjections>>

QuestionTurn(h, t) == Turn(Human, [src |-> "question", rev |-> t, n |-> Len(h) + 1])
AnswerTurn(h, t) == Turn(t, [src |-> "qa", rev |-> t, n |-> Len(h) + 2])

\* The answer has streamed in: question and answer are pushed (259-269).
QAAnswer ==
  /\ pc = "qaCall"
  /\ LET h == conversationHistory \o
              <<QuestionTurn(conversationHistory, qaTarget),
                AnswerTurn(conversationHistory, qaTarget)>>
     IN /\ conversationHistory' = h
        /\ lastSeenIndex' = markAsSeen(lastSeenIndex, h, qaTarget)
  /\ tokenUsage' = trackTokens(tokenUsage, qaTarget, TextChars, TextChars)
  /\ qaTarget' = NoReviewer
  /\ pc' = "qa"
  /\ Notify(0, 1, 0, 0)
  /\ UNCHANGED <<optionVars, sessions, finalPrompt, endTime, log, quits, parseVars, analysis, round, idx, reviewerTasks,
                 statuses, results, convergedAtRound, summaryTasks, summaries,
                 delivered, judgeCalls, judgeInput, qaCount, interjections>>

\* --------------------------------------------------- leaving a round
\* The for statement's step and test (136, 273): the next round, or the
\* summary phase.
AdvanceRound ==
  /\ IF loopContinues(round + 1)
     THEN /\ round' = round + 1
          /\ pc' = IF mode = "stream" THEN "streamRound" ELSE "runNext"
          /\ reviewerTasks' = NoTasks
     ELSE /\ round' = round
          /\ pc' = "summaries"
          /\ reviewerTasks' = reviewerTasks
  /\ idx' = 1
  /\ statuses' = AllPending
  /\ endTime' = NoEndTimes
  /\ results' = NoResults

\* ------------------------------------------- runStreaming's round (273-346)
\* The interjection provider answers 'q': `break` leaves the round loop.
StreamQuit ==
  /\ pc = "streamRound"
  /\ interactive
  /\ quits < MaxQuits
  /\ quits' = quits + 1
  /\ log' = Append(log, Event("quit", Human, round))
  /\ pc' = "summaries"
  /\ idx' = 1
  /\ UNCHANGED <<optionVars, sessions, emitted, finalPrompt, tokenUsage, endTime, parseVars, conversationHistory, lastSeenIndex, analysis,
                 round, reviewerTasks, statuses, results, convergedAtRound,
                 summaryTasks, summaries, delivered, judgeCalls, judgeInput,
                 qaCount, qaTarget, interjections>>

\* The round starts: an interjection is pushed if one was typed, then the
\* requests of all reviewers are built from that history (288-291) and the
\* statuses are initialised (294-297).
StreamRoundStart(input) ==
  /\ pc = "streamRound"
  /\ input # "q"
  /\ interactive \/ input = "null"
  /\ CanInput(input)
  /\ LET h == Interjected(conversationHistory, input)
         tasks == [r \in Reviewers |-> buildMessages(h, r)]
     IN /\ conversationHistory' = h
        /\ reviewerTasks' = tasks
        /\ delivered' = [r \in Reviewers |-> delivered[r] \cup TurnsIn(tasks[r])]
  /\ interjections' = IF input = "text" THEN interjections + 1 ELSE interjections
  /\ log' = log \o Answered(input, round)
  /\ statuses' = AllPending
  /\ endTime' = NoEndTimes
  /\ results' = NoResults
  /\ idx' = 1
  /\ pc' = "launch"
  /\ Notify(1, 0, 1, 0)
  /\ UNCHANGED <<optionVars, sessions, finalPrompt, tokenUsage, quits, parseVars, lastSeenIndex, analysis, round,
                 convergedAtRound, summaryTasks, summaries, judgeCalls,
                 judgeInput, qaCount, qaTarget>>

\* reviewerTasks.map(async ...) runs each task body up to its first await:
\* the reviewer is marked thinking and its chatStream call is issued (304-314).
StreamLaunch ==
  /\ pc = "launch"
  /\ statuses' = [statuses EXCEPT ![idx] = "thinking"]
  /\ log' = Append(log, Event("round", idx, round))
  /\ IF idx < NumReviewers
     THEN idx' = idx + 1 /\ pc' = pc
     ELSE idx' = 1 /\ pc' = "parallel"
  /\ Notify(0, 0, 1, 0)
  /\ UNCHANGED <<optionVars, sessions, finalPrompt, tokenUsage, endTime, quits, parseVars, conversationHistory, lastSeenIndex, analysis,
                 round, reviewerTasks, results, convergedAtRound, summaryTasks,
                 summaries, delivered, judgeCalls, judgeInput, qaCount,
                 qaTarget, interjections>>

\* How many tasks of the batch have resolved.
Resolved == Cardinality({r \in Reviewers : statuses[r] = "done"})

\* A task body that pushes its response as soon as its own stream ends.
StreamDoneEager(r) ==
  /\ pc = "parallel"
  /\ statuses[r] = "thinking"
  /\ statuses' = [statuses EXCEPT ![r] = "done"]
  /\ results' = [results EXCEPT ![r] = RoundTurn(r, round).content]
  /\ conversationHistory' = Append(conversationHistory, RoundTurn(r, round))
  /\ Notify(0, 0, 1, 0)
  /\ UNCHANGED <<optionVars, sessions, finalPrompt, tokenUsage, endTime, log, quits, parseVars, lastSeenIndex, analysis,
                 pc, round, idx, reviewerTasks, convergedAtRound, summaryTasks,
                 summaries, delivered, judgeCalls, judgeInput, qaCount,
                 qaTarget, interjections>>

\* Reviewer r's stream ends: its task resolves with the buffered response
\* (318-331).  endTime feeds only the displayed duration and is left at its
\* initial value here; StreamDoneTimed records it.
StreamDone(r) ==
  /\ pc = "parallel"
  /\ statuses[r] = "thinking"
  /\ statuses' = [statuses EXCEPT ![r] = "done"]
  /\ results' = [results EXCEPT ![r] = RoundTurn(r, round).content]
  /\ Notify(0, 0, 1, 0)
  /\ UNCHANGED <<optionVars, sessions, finalPrompt, tokenUsage, endTime, log, quits, parseVars, conversationHistory, lastSeenIndex, analysis,
                 pc, round, idx, reviewerTasks, convergedAtRound, summaryTasks,
                 summaries, delivered, judgeCalls, judgeInput, qaCount,
                 qaTarget, interjections>>

\* The same step with endTime recorded (319-327), as the rank of the
\* completion within the batch.
StreamDoneTimed(r) ==
  /\ pc = "parallel"
  /\ statuses[r] = "thinking"
  /\ statuses' = [statuses EXCEPT ![r] = "done"]
  /\ endTime' = [endTime EXCEPT ![r] = Resolved + 1]
  /\ results' = [results EXCEPT ![r] = RoundTurn(r, round).content]
  /\ Notify(0, 0, 1, 0)
  /\ UNCHANGED <<optionVars, sessions, finalPrompt, tokenUsage, log, quits, parseVars, conversationHistory, lastSeenIndex, analysis,
                 pc, round, idx, reviewerTasks, convergedAtRound, summaryTasks,
                 summaries, delivered, judgeCalls, judgeInput, qaCount,
                 qaTarget, interjections>>

\* A commit loop that takes the first result every time.
resultsFirstOnly == [i \in Reviewers |-> 1]

\* Results in the order the tasks resolved.
resultsByCompletion ==
  [i \in Reviewers |-> CHOOSE r \in Reviewers : endTime[r] = i]

\* `results`: Promise.all keeps the order of reviewerTasks, that of
\* this.reviewers, whatever the order the tasks resolved in.
resultsOrder == [i \in Reviewers |-> i]

\* The commit loop over `results` (336-346): push and markAsSeen per reviewer,
\* in the order of this.reviewers.
RECURSIVE CommitFrom(_, _, _, _)
CommitFrom(i, h, seen, usage) ==
  IF i > NumReviewers THEN <<h, seen, usage>>
  ELSE LET r == resultsOrder[i]
           h2 == Append(h, Turn(r, results[r]))
       IN CommitFrom(i + 1, h2, markAsSeen(seen, h2, r),
                     trackTokens(usage, r, inputLength(reviewerTasks[r]), TextChars))

\* A batch that is handed on as soon as one task has resolved.
anyResolved == \E r \in Reviewers : statuses[r] = "done"

\* Promise.all resolves once every task has.
allResolved == \A r \in Reviewers : statuses[r] = "done"

\* Promise.all has resolved: every task is done.
StreamCommit ==
  /\ pc = "parallel"
  /\ allResolved
  /\ LET c == CommitFrom(1, conversationHistory, lastSeenIndex, tokenUsage)
     IN /\ conversationHistory' = c[1]
        /\ lastSeenIndex' = c[2]
        /\ tokenUsage' = c[3]
  /\ pc' = "check"
  /\ Notify(0, NumReviewers, 0, 0)
  /\ UNCHANGED <<optionVars, sessions, finalPrompt, endTime, log, quits, parseVars, analysis, round, idx, reviewerTasks,
                 statuses, results, convergedAtRound, summaryTasks, summaries,
                 delivered, judgeCalls, judgeInput, qaCount, qaTarget,
                 interjections>>

\* ---------------------------------------------------- run's round (136-167)
\* The interjection provider answers 'q': `break` leaves the loop over the
\* reviewers, and the round goes on to its convergence check.
RunQuit ==
  /\ pc = "runNext"
  /\ interactive
  /\ quits < MaxQuits
  /\ quits' = quits + 1
  /\ log' = Append(log, Event("quit", Human, round))
  /\ pc' = "check"
  /\ UNCHANGED <<optionVars, sessions, emitted, finalPrompt, tokenUsage, endTime, parseVars, conversationHistory, lastSeenIndex, analysis,
                 round, idx, reviewerTasks, statuses, results, convergedAtRound,
                 summaryTasks, summaries, delivered, judgeCalls, judgeInput,
                 qaCount, qaTarget, interjections>>

\* Reviewer idx's turn: an interjection is pushed if one was typed, its request
\* is built and its agent is called (139-154).
RunReviewerStart(input) ==
  /\ pc = "runNext"
  /\ input # "q"
  /\ interactive \/ input = "null"
  /\ CanInput(input)
  /\ LET h == Interjected(conversationHistory, input)
         messages == buildMessages(h, idx)
     IN /\ conversationHistory' = h
        /\ reviewerTasks' = [reviewerTasks EXCEPT ![idx] = messages]
        /\ delivered' = Deliver(delivered, idx, messages)
  /\ interjections' = IF input = "text" THEN interjections + 1 ELSE interjections
  /\ log' = (log \o Answered(input, round)) \o <<Event("round", idx, round)>>
  /\ pc' = "runCall"
  /\ UNCHANGED <<optionVars, sessions, emitted, finalPrompt, tokenUsage, endTime, quits, parseVars, lastSeenIndex, analysis, round, idx,
                 statuses, results, convergedAtRound, summaryTasks, summaries,
                 judgeCalls, judgeInput, qaCount, qaTarget>>

\* The agent answers: the Turn is pushed and marked as seen (156-166).
RunReviewerReturn ==
  /\ pc = "runCall"
  /\ LET h == Append(conversationHistory, RoundTurn(idx, round))
     IN /\ conversationHistory' = h
        /\ lastSeenIndex' = markAsSeen(lastSeenIndex, h, idx)
  /\ tokenUsage' = trackTokens(tokenUsage, idx, inputLength(reviewerTasks[idx]), TextChars)
  /\ IF idx < NumReviewers
     THEN idx' = idx + 1 /\ pc' = "runNext"
     ELSE idx' = idx /\ pc' = "check"
  /\ Notify(0, 1, 0, 0)
  /\ UNCHANGED <<optionVars, sessions, finalPrompt, endTime, log, quits, parseVars, analysis, round, reviewerTasks, statuses,
                 results, convergedAtRound, summaryTasks, summaries, delivered,
                 judgeCalls, judgeInput, qaCount, qaTarget, interjections>>

\* ------------------------------------- the convergence check (169-182, 348-362)
\* No check this round, or checkConvergence returns false without a call.
CheckSkip ==
  /\ pc = "check"
  /\ ~shouldCheck(round) \/ ~needsJudge(conversationHistory)
  /\ AdvanceRound
  /\ Notify(0, 0, 0, 1)
  /\ UNCHANGED <<optionVars, sessions, finalPrompt, tokenUsage, log, quits, parseVars, conversationHistory, lastSeenIndex, analysis,
                 convergedAtRound, summaryTasks, summaries, delivered,
                 judgeCalls, judgeInput, qaCount, qaTarget, interjections>>

\* checkConvergence calls the judge (the summarizer's agent) on the last
\* this.reviewers.length entries of the history.
CheckCallJudge ==
  /\ pc = "check"
  /\ shouldCheck(round)
  /\ needsJudge(conversationHistory)
  /\ judgeInput' = lastRoundMessages(conversationHistory)
  /\ judgeCalls' = [judgeCalls EXCEPT ![round] = @ + 1]
  /\ log' = Append(log, Event("judge", Summarizer, round))
  /\ pc' = "judge"
  /\ IF mode = "stream" THEN Notify(1, 0, 0, 0) ELSE Notify(0, 0, 0, 0)
  /\ UNCHANGED <<optionVars, sessions, finalPrompt, tokenUsage, endTime, quits, parseVars, conversationHistory, lastSeenIndex, analysis,
                 round, idx, reviewerTasks, statuses, results, convergedAtRound,
                 summaryTasks, summaries, delivered, qaCount, qaTarget,
                 interjections>>

\* The responses the judge gives in a run (the parser is applied to each).
JudgeResponses ==
  {AtomConverged, AtomNot \o AtomConverged, AtomLower \o AtomNewline, <<>>}

\* The judge answers; converged records the round and leaves the loop.
JudgeReturn(resp) ==
  /\ pc = "judge"
  /\ IF parseVerdict(resp)
     THEN /\ convergedAtRound' = round
          /\ pc' = "summaries"
          /\ idx' = 1
          /\ UNCHANGED <<round, reviewerTasks, statuses, endTime, results>>
     ELSE /\ convergedAtRound' = convergedAtRound
          /\ AdvanceRound
  /\ Notify(0, 0, 0, 1)
  /\ UNCHANGED <<optionVars, sessions, finalPrompt, tokenUsage, log, quits, parseVars, conversationHistory, lastSeenIndex, analysis,
                 summaryTasks, summaries, delivered, judgeCalls, judgeInput,
                 qaCount, qaTarget, interjections>>

\* ------------------------------------------- collectSummaries (503-522)
\* A loop that asks the first reviewer only.
moreSummariesNone(i) == FALSE

\* `for (const reviewer of this.reviewers)` (507): a reviewer is left to ask.
moreSummaries(i) == i < NumReviewers

SummaryStart ==
  /\ pc = "summaries"
  /\ LET messages == SummaryMessages(conversationHistory, idx)
     IN /\ summaryTasks' = [summaryTasks EXCEPT ![idx] = messages]
        /\ delivered' = Deliver(delivered, idx, messages)
  /\ log' = Append(log, Event("summary", idx, round))
  /\ pc' = "summaryCall"
  /\ IF mode = "stream" /\ idx = 1 THEN Notify(1, 0, 0, 0) ELSE Notify(0, 0, 0, 0)
  /\ UNCHANGED <<optionVars, sessions, finalPrompt, tokenUsage, endTime, quits, parseVars, conversationHistory, lastSeenIndex, analysis,
                 round, idx, reviewerTasks, statuses, results, convergedAtRound,
                 summaries, judgeCalls, judgeInput, qaCount, qaTarget,
                 interjections>>

\* A summary phase that commits each summary to the History as a Turn.
SummaryReturnCommitted ==
  /\ pc = "summaryCall"
  /\ summaries' = Append(summaries, idx)
  /\ LET h == Append(conversationHistory, Turn(idx, SummaryText(idx)))
     IN /\ conversationHistory' = h
        /\ lastSeenIndex' = markAsSeen(lastSeenIndex, h, idx)
  /\ tokenUsage' = trackTokens(tokenUsage, idx, inputLength(summaryTasks[idx]), TextChars)
  /\ IF idx < NumReviewers
     THEN idx' = idx + 1 /\ pc' = "summaries" /\ log' = log
          /\ finalPrompt' = finalPrompt
     ELSE /\ idx' = idx
          /\ pc' = "conclusion"
          /\ log' = Append(log, Event("conclusion", Summarizer, round))
          /\ finalPrompt' = finalConclusionPrompt(summaries')
  /\ UNCHANGED <<optionVars, sessions, emitted, endTime, quits, parseVars, analysis,
                 round, reviewerTasks, statuses, results, convergedAtRound,
                 summaryTasks, delivered, judgeCalls, judgeInput, qaCount,
                 qaTarget, interjections>>

\* The summary of reviewer idx is in; after the last one getFinalConclusion
\* builds its prompt and calls the summarizer.
SummaryReturn ==
  /\ pc = "summaryCall"
  /\ summaries' = Append(summaries, idx)
  /\ tokenUsage' = trackTokens(tokenUsage, idx, inputLength(summaryTasks[idx]), TextChars)
  /\ IF moreSummaries(idx)
     THEN idx' = idx + 1 /\ pc' = "summaries" /\ log' = log
          /\ finalPrompt' = finalPrompt
     ELSE /\ idx' = idx
          /\ pc' = "conclusion"
          /\ log' = Append(log, Event("conclusion", Summarizer, round))
          /\ finalPrompt' = finalConclusionPrompt(summaries')
  /\ UNCHANGED <<optionVars, sessions, emitted, endTime, quits, parseVars, conversationHistory, lastSeenIndex, analysis,
                 round, reviewerTasks, statuses, results, convergedAtRound,
                 summaryTasks, delivered, judgeCalls, judgeInput, qaCount,
                 qaTarget, interjections>>

\* getFinalConclusion (524-540) returns and the result is built (191-199,
\* 369-377); runStreaming's finally block ends the sessions.
Conclude ==
  /\ pc = "conclusion"
  /\ tokenUsage' = trackTokens(tokenUsage, Summarizer,
                               TextChars * (1 + Len(summaries)) + TextChars, TextChars)
  /\ pc' = "done"
  /\ sessions' = finallyEndSessions(sessions, FALSE)
  /\ UNCHANGED <<optionVars, emitted, finalPrompt, endTime, log, quits, parseVars, conversationHistory, lastSeenIndex, analysis,
                 round, idx, reviewerTasks, statuses, results, convergedAtRound,
                 summaryTasks, summaries, delivered, judgeCalls, judgeInput,
                 qaCount, qaTarget, interjections>>

\* ----------------------------------------------------------- failure
\* An agent call in flight throws: nothing catches it, the run rejects, and
\* runStreaming's finally block ends the sessions on the way out.
CallInFlight(p) ==
  \/ pc = "analyze" /\ p = Analyzer
  \/ pc = "qaCall" /\ p = qaTarget
  \/ pc \in {"runCall", "summaryCall"} /\ p = idx
  \/ pc \in {"judge", "conclusion"} /\ p = Summarizer
  \/ pc = "parallel" /\ p \in Reviewers /\ statuses[p] = "thinking"

\* A run that catches the error and issues the call again.
AgentCallRetried(p) ==
  /\ CallInFlight(p)
  /\ log' = log \o <<Event("fail", p, round), Event("retry", p, round)>>
  /\ log[Len(log)].kind # "retry"
  /\ UNCHANGED <<optionVars, sessions, emitted, finalPrompt, quits, parseVars, conversationHistory, lastSeenIndex, analysis,
                 pc, round, idx, reviewerTasks, statuses, results, convergedAtRound,
                 summaryTasks, summaries, delivered, judgeCalls, judgeInput,
                 qaCount, qaTarget, interjections, tokenUsage, endTime>>

AgentCallFails(p) ==
  /\ CallInFlight(p)
  /\ log' = Append(log, Event("fail", p, round))
  /\ pc' = "failed"
  /\ sessions' = finallyEndSessions(sessions, TRUE)
  /\ UNCHANGED <<optionVars, emitted, finalPrompt, tokenUsage, endTime, quits, parseVars, conversationHistory, lastSeenIndex, analysis,
                 round, idx, reviewerTasks, statuses, results, convergedAtRound,
                 summaryTasks, summaries, delivered, judgeCalls, judgeInput,
                 qaCount, qaTarget, interjections>>

\* After the rejection of Promise.all the other tasks of the batch are still
\* running: reviewer r's stream ends, its status is set, and the value its
\* task returns is dropped.
StreamOrphanDone(r) ==
  /\ pc = "failed"
  /\ statuses[r] = "thinking"
  /\ log[Len(log)].who # r
  /\ statuses' = [statuses EXCEPT ![r] = "done"]
  /\ Notify(0, 0, 1, 0)
  /\ UNCHANGED <<optionVars, sessions, finalPrompt, quits, parseVars, conversationHistory, lastSeenIndex, analysis,
                 pc, round, idx, reviewerTasks, results, convergedAtRound,
                 summaryTasks, summaries, delivered, judgeCalls, judgeInput,
                 qaCount, qaTarget, interjections, tokenUsage, endTime, log>>

\* ------------------------------------------------------------------- Spec
Next ==
  \/ PreAnalyze
  \/ QAProceed
  \/ \E target \in Targets : QAInvalidTarget(target)
  \/ \E target \in Targets : QAAsk(target)
  \/ QAAnswer
  \/ StreamQuit
  \/ \E input \in Inputs : StreamRoundStart(input)
  \/ StreamLaunch
  \/ \E r \in Reviewers : StreamDone(r)
  \/ StreamCommit
  \/ RunQuit
  \/ \E input \in Inputs : RunReviewerStart(input)
  \/ RunReviewerReturn
  \/ CheckSkip
  \/ CheckCallJudge
  \/ \E resp \in JudgeResponses : JudgeReturn(resp)
  \/ SummaryStart
  \/ SummaryReturn
  \/ Conclude
  \/ \E p \in Participants : AgentCallFails(p)
  \/ \E r \in Reviewers : StreamOrphanDone(r)

Spec == Init /\ [][Next]_vars

\* ------------------------------------------- runStreaming on its own
\* runStreaming alone, with the completion times of each batch recorded.
InitStream == Init /\ mode = "stream"

NextStream ==
  \/ PreAnalyze
  \/ QAProceed
  \/ \E target \in Targets : QAInvalidTarget(target)
  \/ \E target \in Targets : QAAsk(target)
  \/ QAAnswer
  \/ StreamQuit
  \/ \E input \in Inputs : StreamRoundStart(input)
  \/ StreamLaunch
  \/ \E r \in Reviewers : StreamDoneTimed(r)
  \/ StreamCommit
  \/ CheckSkip
  \/ CheckCallJudge
  \/ \E resp \in JudgeResponses : JudgeReturn(resp)
  \/ SummaryStart
  \/ SummaryReturn
  \/ Conclude
  \/ \E p \in Participants : AgentCallFails(p)
  \/ \E r \in Reviewers : StreamOrphanDone(r)

SpecStream == InitStream /\ [][NextStream]_vars

\* ------------------------------------------- with and without event callbacks
\* The same runs, started with or without the event callbacks; the reviewers
\* are all on providers of one kind, with or without a session.
InitObserved ==
  /\ mode \in {"run", "stream"}
  /\ runs = 1
  /\ maxRounds \in 1..MaxRoundsBound
  /\ optCheckConvergence \in BOOLEAN
  /\ interactive \in BOOLEAN
  /\ hasQA \in (IF mode = "stream" THEN BOOLEAN ELSE {FALSE})
  /\ hasSession \in {[r \in Reviewers |-> b] : b \in BOOLEAN}
  /\ observed \in BOOLEAN
  /\ RunState
  /\ pc = "analyze"
  /\ response = <<>>
  /\ verdict = "none"

SpecObserved == InitObserved /\ [][Next]_vars

\* ------------------------------------------- a second call on the instance
\* A reset that leaves the cursors of the previous call in place.
cursorsKept(seen) == seen

\* this.lastSeenIndex.clear() (128, 205)
clearCursors(seen) == [r \in Reviewers |-> 0 - 1]

\* run or runStreaming is called again on the instance once the previous call
\* has returned or thrown: the fields are reset (126-129, 203-207; run leaves
\* this.analysis as it is until preAnalyze returns), the locals are new,
\* runStreaming starts the sessions, and the analyzer is called.
Restart(m) ==
  /\ pc \in {"done", "failed"}
  /\ runs < MaxRuns
  /\ runs' = runs + 1
  /\ mode' = m
  /\ hasQA' \in (IF m = "stream" THEN BOOLEAN ELSE {FALSE})
  /\ conversationHistory' = <<>>
  /\ tokenUsage' = NoUsage
  /\ lastSeenIndex' = clearCursors(lastSeenIndex)
  /\ analysis' = IF m = "stream" THEN 0 ELSE analysis
  /\ round' = 1
  /\ idx' = 1
  /\ reviewerTasks' = NoTasks
  /\ statuses' = AllPending
  /\ results' = NoResults
  /\ convergedAtRound' = 0
  /\ summaryTasks' = NoTasks
  /\ summaries' = <<>>
  /\ delivered' = [r \in Reviewers |-> {}]
  /\ judgeCalls' = [r \in 1..(MaxRoundsBound + 1) |-> 0]
  /\ judgeInput' = <<>>
  /\ qaCount' = 0
  /\ qaTarget' = NoReviewer
  /\ interjections' = 0
  /\ quits' = 0
  /\ endTime' = NoEndTimes
  /\ log' = <<Event("analyze", Analyzer, 0)>>
  /\ finalPrompt' = NoPrompt
  /\ emitted' = NoEvents
  /\ sessions' = SessionsAtStart(m)
  /\ pc' = "analyze"
  /\ UNCHANGED <<maxRounds, optCheckConvergence, interactive, hasSession, observed,
                 parseVars>>

\* The first call and those that follow it; the reviewers are all on
\* providers of one kind, with or without a session.
InitRerun ==
  /\ Init
  /\ hasSession \in {[r \in Reviewers |-> b] : b \in BOOLEAN}

NextRerun ==
  \/ Next
  \/ \E m \in {"run", "stream"} : Restart(m)

SpecRerun == InitRerun /\ [][NextRerun]_vars

\* ------------------------------------------- runs in which every call resolves
\* The steps of a run none of whose agent calls throws.
NextLive ==
  \/ PreAnalyze
  \/ QAProceed
  \/ \E target \in Targets : QAInvalidTarget(target)
  \/ \E target \in Targets : QAAsk(target)
  \/ QAAnswer
  \/ StreamQuit
  \/ \E input \in Inputs : StreamRoundStart(input)
  \/ StreamLaunch
  \/ \E r \in Reviewers : StreamDone(r)
  \/ StreamCommit
  \/ RunQuit
  \/ \E input \in Inputs : RunReviewerStart(input)
  \/ RunReviewerReturn
  \/ CheckSkip
  \/ CheckCallJudge
  \/ \E resp \in JudgeResponses : JudgeReturn(resp)
  \/ SummaryStart
  \/ SummaryReturn
  \/ Conclude

\* Every awaited call resolves and every provider answers, so the run takes
\* its next step; and the Q&A provider, asked again and again, at some time
\* answers that the debate may proceed.
Fairness ==
  /\ WF_vars(NextLive)
  /\ SF_vars(QAProceed)

SpecLive == Init /\ [][NextLive]_vars /\ Fairness

\* ------------------------------------------- buildMessages on its own
\* buildMessages applied to every History of up to MaxHistory Turns of the
\* reviewers and the human, in any order, for cursors unseen or set and for
\* providers with and without a session.
Authors == Reviewers \cup {Human}

AnyTurn(id, i) == Turn(id, [src |-> "any", rev |-> id, n |-> i])

Histories ==
  UNION {{[i \in 1..n |-> AnyTurn(ids[i], i)] : ids \in [1..n -> Authors]} : n \in 0..MaxHistory}

InitBuild ==
  /\ mode = "stream"
  /\ runs = 1
  /\ maxRounds = 1
  /\ optCheckConvergence = FALSE
  /\ interactive = FALSE
  /\ hasQA = FALSE
  /\ hasSession \in [Reviewers -> BOOLEAN]
  /\ observed = FALSE
  /\ conversationHistory \in Histories
  /\ lastSeenIndex \in [Reviewers -> {0 - 1, Len(conversationHistory) - 1}]
  /\ analysis = 1
  /\ round = 1
  /\ idx = 1
  /\ reviewerTasks = NoTasks
  /\ statuses = AllPending
  /\ results = NoResults
  /\ convergedAtRound = 0
  /\ summaryTasks = NoTasks
  /\ summaries = <<>>
  /\ delivered = [r \in Reviewers |-> {}]
  /\ judgeCalls = [r \in 1..(MaxRoundsBound + 1) |-> 0]
  /\ judgeInput = <<>>
  /\ qaCount = 0
  /\ qaTarget = NoReviewer
  /\ interjections = 0
  /\ quits = 0
  /\ tokenUsage = NoUsage
  /\ endTime = NoEndTimes
  /\ log = <<>>
  /\ finalPrompt = NoPrompt
  /\ emitted = NoEvents
  /\ sessions = SessionsAtStart(mode)
  /\ pc = "build"
  /\ response = <<>>
  /\ verdict = "none"

\* this.reviewers.map(reviewer => this.buildMessages(reviewer.id)) (288-291)
BuildAll ==
  /\ pc = "build"
  /\ reviewerTasks' = [r \in Reviewers |-> buildMessages(conversationHistory, r)]
  /\ pc' = "built"
  /\ UNCHANGED <<optionVars, sessions, emitted, finalPrompt, tokenUsage, endTime, log, quits, parseVars,
                 conversationHistory, lastSeenIndex, analysis, round, idx, statuses,
                 results, convergedAtRound, summaryTasks, summaries, delivered,
                 judgeCalls, judgeInput, qaCount, qaTarget, interjections>>

NextBuild == BuildAll

SpecBuild == InitBuild /\ [][NextBuild]_vars

\* ------------------------------------------- the parser on its own
\* Every response of up to MaxAtoms atoms is handed to the parser of
\* checkConvergence.
InitParse ==
  /\ mode = "stream"
  /\ runs = 1
  /\ maxRounds = 1
  /\ optCheckConvergence = TRUE
  /\ interactive = FALSE
  /\ hasQA = FALSE
  /\ hasSession = [r \in Reviewers |-> FALSE]
  /\ observed = FALSE
  /\ RunState
  /\ pc = "judge"
  /\ response \in Responses
  /\ verdict = "none"

ParseResponse ==
  /\ pc = "judge"
  /\ verdict = "none"
  /\ verdict' = IF parseVerdict(response) THEN "converged" ELSE "not_converged"
  /\ UNCHANGED <<optionVars, sessions, emitted, finalPrompt, tokenUsage, endTime, log, quits, response, conversationHistory, lastSeenIndex, analysis,
                 pc, round, idx, reviewerTasks, statuses, results,
                 convergedAtRound, summaryTasks, summaries, delivered,
                 judgeCalls, judgeInput, qaCount, qaTarget, interjections>>

NextParse == ParseResponse

SpecParse == InitParse /\ [][NextParse]_vars

\* ================================================================ claims
\* Vocabulary of the claims.
Committed == {conversationHistory[i] : i \in 1..Len(conversationHistory)}
IsRoundTurn(t) == t.content.src = "round"
\* The Turns reviewer r committed in rounds (not its Q&A answers).
RoundTurnsOf(r) == {t \in Committed : t.reviewerId = r /\ IsRoundTurn(t)}
ByOthers(r, turns) == {t \in turns : t.reviewerId \notin {r, Human}}
HasRequest(r) == reviewerTasks[r] # NoRequest
\* What reviewer r has been shown when its request of this round is built: a
\* session-backed agent remembers what earlier requests carried.
Shown(r) == IF hasSession[r] THEN delivered[r] ELSE TurnsIn(reviewerTasks[r])
\* The run is inside its round loop (the summary phase builds requests too).
InRound == pc \in {"launch", "parallel", "runNext", "runCall", "check", "judge"}
RoundsShown(a, b) == {t.content.n : t \in {u \in Shown(a) : u.reviewerId = b /\ IsRoundTurn(u)}}

\* C1: in round 1 every reviewer's request names no other reviewer and
\* carries no other reviewer's Turn, whatever the Q&A phase appended: it is
\* the task and pre-analysis text only.
C1_RoundOneIndependent ==
  round = 1 =>
    \A r \in Reviewers : HasRequest(r) =>
      /\ NamesIn(reviewerTasks[r]) \subseteq {r}
      /\ ByOthers(r, TurnsIn(reviewerTasks[r])) = {}
      /\ reviewerTasks[r][1].analysis

\* C2: in a round r >= 2 any two reviewers A, B of the round are cut at the
\* same round boundary: a third reviewer's Turns shown to A are those shown to
\* B, and A is shown B's Turns of exactly the rounds whose Turns of A are shown
\* to B.
C2_SameRoundBoundary ==
  (round >= 2 /\ InRound) =>
    \A a, b \in Reviewers : (a # b /\ HasRequest(a) /\ HasRequest(b)) =>
      /\ \A c \in Reviewers \ {a, b} :
           {t \in Shown(a) : t.reviewerId = c} = {t \in Shown(b) : t.reviewerId = c}
      /\ RoundsShown(a, b) = RoundsShown(b, a)

\* C3: a request built for round r carries no Turn that another reviewer
\* produced in round r: other reviewers' Turns come from earlier rounds only.
C3_NoSameRoundTurn ==
  \A r \in Reviewers :
    \A i \in 1..Len(reviewerTasks[r]) :
      \A j \in 1..Len(reviewerTasks[r][i].turns) :
        LET t == reviewerTasks[r][i].turns[j] IN
        (t.reviewerId \notin {r, Human} /\ IsRoundTurn(t)) => t.content.n < round

\* C3 witness: in run, the second reviewer's request of a round >= 2 is built
\* after the first reviewer's Turn of that round was committed, and it carries
\* Turns of the first reviewer.
C3_Witness ==
  /\ mode = "run"
  /\ round >= 2
  /\ HasRequest(2)
  /\ RoundTurn(1, round) \in Committed
  /\ \E t \in TurnsIn(reviewerTasks[2]) : t.reviewerId = 1

\* C4: a non-session reviewer's request of a round r >= 2 starts with the
\* pre-analysis text and carries every Turn the other reviewers committed in
\* rounds 1..r-1 (role user) and every own Turn committed so far (role
\* assistant).
CarriedAs(msgs, role) ==
  UNION {SeqToSet(msgs[i].turns) : i \in {j \in 1..Len(msgs) : msgs[j].role = role}}

C4_FullHistoryRebuilt ==
  round >= 2 =>
    \A r \in Reviewers : (HasRequest(r) /\ ~hasSession[r]) =>
      /\ reviewerTasks[r][1].analysis
      /\ \A t \in Committed :
           /\ (t.reviewerId \notin {r, Human} /\ IsRoundTurn(t) /\ t.content.n < round)
                => t \in CarriedAs(reviewerTasks[r], "user")
           /\ (t.reviewerId = r /\ ~(IsRoundTurn(t) /\ t.content.n >= round))
                => t \in CarriedAs(reviewerTasks[r], "assistant")

\* C5: a run without human input (not interactive, no Q&A) and without
\* convergence checking that ends with a result has committed exactly
\* maxRounds Turns per reviewer, maxRounds x N in all.
ReviewerTurns == {i \in 1..Len(conversationHistory) : conversationHistory[i].reviewerId # Human}

C5_TurnCount ==
  (pc = "done" /\ ~interactive /\ ~hasQA /\ ~optCheckConvergence) =>
    /\ Cardinality(ReviewerTurns) = maxRounds * NumReviewers
    /\ \A r \in Reviewers : CountBy(conversationHistory, r) = maxRounds

C5_Witness ==
  /\ pc = "done" /\ ~interactive /\ ~hasQA /\ ~optCheckConvergence
  /\ maxRounds = MaxRoundsBound
  /\ Cardinality(ReviewerTurns) = MaxRoundsBound * NumReviewers

\* C6: once the judge has reported CONVERGED after round k < maxRounds, the
\* round loop is over: convergedAtRound = k, no request of a later round is
\* built, and History holds exactly k x N reviewer Turns from rounds.
RoundTurnCount ==
  Cardinality({i \in 1..Len(conversationHistory) : IsRoundTurn(conversationHistory[i])})

C6_StopsAtConvergence ==
  convergedAtRound # 0 =>
    /\ convergedAtRound = round
    /\ convergedAtRound < maxRounds
    /\ pc \in {"summaries", "summaryCall", "conclusion", "done", "failed"}
    /\ RoundTurnCount = convergedAtRound * NumReviewers

\* C7: the judge is never called, and convergedAtRound never set, before two
\* full rounds of reviewer Turns are committed.
JudgeWasCalled == \E r \in DOMAIN judgeCalls : judgeCalls[r] > 0

C7_TwoRoundsBeforeJudge ==
  (JudgeWasCalled \/ convergedAtRound # 0) =>
    \A r \in Reviewers : Cardinality(RoundTurnsOf(r)) >= 2

\* C8: the judge is called at most once per round, only with convergence
\* checking enabled, only after a round before maxRounds, and only once the
\* Turns of that round's calls are committed; convergedAtRound, when set, is
\* below maxRounds.
C8_JudgeOncePerNonFinalRound ==
  /\ \A r \in DOMAIN judgeCalls :
       /\ judgeCalls[r] <= 1
       /\ judgeCalls[r] > 0 => (optCheckConvergence /\ r < maxRounds /\ r <= round)
  /\ convergedAtRound # 0 => convergedAtRound < maxRounds
  /\ pc = "judge" =>
       /\ judgeCalls[round] = 1
       /\ \A r \in Reviewers : HasRequest(r) => RoundTurn(r, round) \in Committed
       /\ \A r \in Reviewers : statuses[r] # "thinking"

C8_Witness ==
  /\ pc = "judge"
  /\ round = 2
  /\ judgeCalls[2] = 1
  /\ \A r \in Reviewers : RoundTurn(r, 2) \in Committed

\* C9: the judge's input after round r is exactly the N reviewer Turns of
\* round r, one per reviewer.
C9_JudgeSeesTheRound ==
  pc = "judge" =>
    /\ Len(judgeInput) = NumReviewers
    /\ SeqToSet(judgeInput) = {RoundTurn(r, round) : r \in Reviewers}

\* C10: the verdict is converged exactly when the first whitespace-delimited
\* token of the response is CONVERGED in any letter case, and every response
\* gets a verdict.
NonWs(s) == {i \in 1..Len(s) : s[i] \notin Whitespace}
Least(S) == CHOOSE i \in S : \A j \in S : i <= j
FirstToken(s) ==
  IF NonWs(s) = {} THEN <<>>
  ELSE LET a == Least(NonWs(s))
           ends == {j \in a..Len(s) : \A k \in a..j : s[k] \notin Whitespace}
           b == CHOOSE j \in ends : \A k \in ends : k <= j
       IN SubSeq(s, a, b)
IsConvergedAnyCase(tok) ==
  /\ Len(tok) = Len(AtomConverged)
  /\ \A i \in 1..Len(tok) : tok[i] \in {AtomConverged[i], AtomLower[i]}

LogIndexes == 1..Len(log)
\* The agent calls issued for reviewer debate turns.
RoundCalls == {i \in LogIndexes : log[i].kind = "round"}
\* Position in History of reviewer r's Turn of round k (0 when absent).
PositionOf(r, k) ==
  IF RoundTurn(r, k) \in Committed
  THEN CHOOSE i \in 1..Len(conversationHistory) : conversationHistory[i] = RoundTurn(r, k)
  ELSE 0

\* C11: in runStreaming the Turns of a round stand in History in the order
\* of this.reviewers, next to one another, whatever the order in which the
\* round's calls completed.
C11_CommitInReviewerOrder ==
  mode = "stream" =>
    \A i \in 1..Len(conversationHistory) :
      LET t == conversationHistory[i] IN
      IsRoundTurn(t) =>
        /\ t.reviewerId > 1 =>
             /\ i > 1
             /\ conversationHistory[i - 1] = RoundTurn(t.reviewerId - 1, t.content.n)
        /\ t.reviewerId < NumReviewers =>
             /\ i < Len(conversationHistory)
             /\ conversationHistory[i + 1] = RoundTurn(t.reviewerId + 1, t.content.n)

\* C11 witness: a round was committed whose last reviewer completed first.
C11_Witness ==
  /\ mode = "stream"
  /\ pc = "check"
  /\ endTime[NumReviewers] = 1
  /\ \A r \in Reviewers : PositionOf(r, round) # 0

\* C12: in runStreaming, from the launch of a round's calls until the last of
\* them has resolved, no step changes History, the cursors or the token
\* table; the step that ends the batch appends the N Turns of the round
\* together, and every response that completed earlier was only buffered.
BatchOpen ==
  /\ mode = "stream"
  /\ pc \in {"launch", "parallel", "failed"}
  /\ \E r \in Reviewers : statuses[r] # "done"

C12_NoPartialCommit ==
  [][/\ BatchOpen =>
          UNCHANGED <<conversationHistory, lastSeenIndex, tokenUsage>>
     /\ (mode = "stream" /\ conversationHistory' # conversationHistory
            /\ pc \in {"launch", "parallel"}) =>
          /\ \A r \in Reviewers : statuses[r] = "done" /\ results[r] # NoContent
          /\ Len(conversationHistory') = Len(conversationHistory) + NumReviewers
          /\ \A r \in Reviewers : RoundTurn(r, round) \in SeqToSet(conversationHistory')
    ]_vars

\* C12 witness: one reviewer has finished and its response is buffered while
\* another is still thinking, and nothing of the round is in History.
C12_Witness ==
  /\ mode = "stream"
  /\ pc = "parallel"
  /\ \E a, b \in Reviewers :
       /\ statuses[a] = "done" /\ results[a] = RoundTurn(a, round).content
       /\ statuses[b] = "thinking"
  /\ \A r \in Reviewers : RoundTurn(r, round) \notin Committed

\* C13: in run and in runStreaming, once the agent call of any reviewer for
\* the current round has been issued, the request of every reviewer for that
\* round has been built.
CalledInRound(k) == {log[i].who : i \in {j \in RoundCalls : log[j].round = k}}

C13_AllBuiltBeforeAnyCall ==
  (InRound /\ CalledInRound(round) # {}) =>
    \A r \in Reviewers : HasRequest(r)

\* C14: rounds are strictly sequential.  Every agent call issued for a round
\* before the current one has resolved and its Turn is committed (so no
\* request of the current round was built before that), no call belongs to a
\* later round, and in History the reviewer Turns stand in the order of
\* their rounds.
C14_RoundsSequential ==
  /\ LET committed == Committed IN
     \A i \in LogIndexes :
       log[i].kind = "round" =>
         /\ log[i].round <= round
         /\ log[i].round < round => RoundTurn(log[i].who, log[i].round) \in committed
  /\ LET turns == SelectSeq(conversationHistory, IsRoundTurn) IN
     \A i \in 1..(Len(turns) - 1) : turns[i].content.n <= turns[i + 1].content.n

\* C14 witness: the requests of round 2 are built and being answered, with
\* every Turn of round 1 committed before them.
C14_Witness ==
  /\ round = 2
  /\ pc \in {"parallel", "runCall"}
  /\ CalledInRound(2) # {}
  /\ \A r \in Reviewers : PositionOf(r, 1) # 0
  /\ \A r \in Reviewers : PositionOf(r, 2) = 0

\* C15: a reviewer's agent is called at most once per round, a round's
\* commit appends exactly one Turn for each reviewer called in the round and
\* none for any other, and no reviewer ever has more committed Turns than the
\* current round number plus the Q&A answers it gave.
RoundTurnIndexes ==
  {i \in 1..Len(conversationHistory) : IsRoundTurn(conversationHistory[i])}
QAAnswersOf(r) ==
  {i \in 1..Len(conversationHistory) :
     /\ conversationHistory[i].reviewerId = r
     /\ conversationHistory[i].content.src = "qa"}
RoundCommitted(k) ==
  \/ k < round
  \/ k = round /\ pc \in {"check", "judge", "summaries", "summaryCall", "conclusion", "done"}

C15_OneTurnPerRound ==
  /\ LET callAt == RoundCalls
         turnAt == RoundTurnIndexes
         calls == {RoundTurn(log[i].who, log[i].round) : i \in callAt}
         turns == {conversationHistory[i] : i \in turnAt}
     IN /\ Cardinality(calls) = Cardinality(callAt)
        /\ Cardinality(turns) = Cardinality(turnAt)
        /\ turns \subseteq calls
        /\ \A t \in calls : RoundCommitted(t.content.n) => t \in turns
  /\ \A r \in Reviewers :
       LET mine == {i \in 1..Len(conversationHistory) : conversationHistory[i].reviewerId = r}
           answers == {i \in mine : conversationHistory[i].content.src = "qa"}
       IN Cardinality(mine) <= round + Cardinality(answers)

\* C15 witness: round 2 has just been committed for a reviewer that also
\* answered a question, which now has three Turns.
C15_Witness ==
  /\ pc = "check"
  /\ round = 2
  /\ \E r \in Reviewers :
       /\ Cardinality(QAAnswersOf(r)) = 1
       /\ CountBy(conversationHistory, r) = 3
  /\ \A r \in Reviewers : PositionOf(r, 2) # 0

\* C16: once the interjection provider has answered 'q', in run as in
\* runStreaming, no reviewer is called for a debate turn and no reviewer Turn
\* is committed any more, and a run that ends with a result has collected
\* every reviewer's summary on the History as it stood.
Quits == {i \in LogIndexes : log[i].kind = "quit"}

C16_QuitEndsRoundLoop ==
  /\ \A q \in Quits : \A i \in RoundCalls :
       /\ i < q
       /\ RoundTurn(log[i].who, log[i].round) \in Committed
  /\ (Quits # {} /\ pc = "done") => Len(summaries) = NumReviewers

\* C17: the interjection provider is consulted at most once per round, and
\* only before any call of that round: no answer of the provider (a quit, an
\* interjected Turn, or nothing) follows a reviewer call of the same round.
Answers == {i \in LogIndexes : log[i].kind \in {"quit", "interject", "nothing"}}

C17_InputOnlyAtRoundBoundary ==
  /\ \A i, j \in Answers : log[i].round = log[j].round => i = j
  /\ \A i \in RoundCalls : \A j \in Answers : log[j].round = log[i].round => j < i

\* C18: an agent call that throws ends the run as failed, whichever call it
\* was: the failure is the last entry of the log for ever (the call is not
\* issued again and no other call is started), no result is returned, and
\* History, the cursors, the token table and the summaries stay as they were.
Fails == {i \in LogIndexes : log[i].kind = "fail"}

C18_FailureAborts ==
  [][/\ Fails' # {} => (pc' = "failed" /\ Fails' = {Len(log')})
     /\ pc = "failed" =>
          /\ pc' = "failed"
          /\ UNCHANGED <<log, conversationHistory, lastSeenIndex, tokenUsage,
                         summaries, convergedAtRound>>
    ]_vars

\* C18 witness: a reviewer's call failed inside a batch, and another task of
\* the batch ran to its end afterwards.
C18_Witness ==
  /\ pc = "failed"
  /\ log[Len(log)].kind = "fail"
  /\ log[Len(log)].who \in Reviewers
  /\ statuses[log[Len(log)].who] = "thinking"
  /\ \E r \in Reviewers : statuses[r] = "done" /\ results[r] = NoContent

\* C19: a question whose target matches no reviewer changes nothing: no
\* agent is called, History, the cursors and the token table stay as they
\* are, nothing fails, and the Q&A provider is asked again; the phase is left
\* for the debate only by the provider's signal to proceed, and for a call
\* only by a question whose target is a reviewer.
LastEvent == log[Len(log)]

C19_UnknownTargetIgnored ==
  [][/\ qaTarget' = Unmatched =>
          /\ pc = "qa" /\ pc' = "qa"
          /\ UNCHANGED <<conversationHistory, lastSeenIndex, tokenUsage, log, qaCount>>
     /\ (pc = "qa" /\ pc' # "qa") =>
          \/ /\ pc' = "qaCall"
             /\ qaTarget' \in Reviewers
             /\ log' = Append(log, Event("qa", qaTarget', 0))
          \/ /\ pc' = "streamRound"
             /\ qaTarget' = NoReviewer
             /\ log' = log
    ]_vars

\* C19 witness: after a question that was answered, a question to an unknown
\* target has been skipped: the provider is asked again and History holds
\* the first question and its answer only.
C19_Witness ==
  /\ pc = "qa"
  /\ qaTarget = Unmatched
  /\ qaCount = 1
  /\ Len(conversationHistory) = 2
  /\ LastEvent.kind = "qa"

\* C20: a question with a valid target calls the agent of the target and of
\* no one else; when the answer is in, exactly two Turns are appended, the
\* human question and then the target's answer, the target's cursor moves to
\* the answer and its token record grows, and the cursor and the token
\* record of every other participant stay as they were.
C20_QuestionTouchesOnlyTarget ==
  [][/\ (pc = "qa" /\ pc' = "qaCall") =>
          /\ qaTarget' \in Reviewers
          /\ log' = Append(log, Event("qa", qaTarget', 0))
          /\ UNCHANGED <<conversationHistory, lastSeenIndex, tokenUsage>>
     /\ (pc = "qaCall" /\ pc' # "failed") =>
          /\ pc' = "qa"
          /\ log' = log
          /\ Len(conversationHistory') = Len(conversationHistory) + 2
          /\ SubSeq(conversationHistory', 1, Len(conversationHistory)) = conversationHistory
          /\ conversationHistory'[Len(conversationHistory) + 1].reviewerId = Human
          /\ conversationHistory'[Len(conversationHistory) + 1].content.src = "question"
          /\ conversationHistory'[Len(conversationHistory) + 2].reviewerId = qaTarget
          /\ conversationHistory'[Len(conversationHistory) + 2].content.src = "qa"
          /\ lastSeenIndex'[qaTarget] = Len(conversationHistory') - 1
          /\ tokenUsage'[qaTarget].input > tokenUsage[qaTarget].input
          /\ tokenUsage'[qaTarget].output > tokenUsage[qaTarget].output
          /\ \A r \in Reviewers \ {qaTarget} : lastSeenIndex'[r] = lastSeenIndex[r]
          /\ \A q \in Participants \ {qaTarget} : tokenUsage'[q] = tokenUsage[q]
    ]_vars

\* C20 witness: the last reviewer has answered a question: History holds the
\* question and the answer, its cursor is on the answer, and the first
\* reviewer has not been called.
C20_Witness ==
  /\ pc = "qa"
  /\ Len(conversationHistory) = 2
  /\ conversationHistory[2].reviewerId = NumReviewers
  /\ lastSeenIndex[NumReviewers] = 1
  /\ isFirstCall(1)
  /\ tokenUsage[NumReviewers].input > 0
  /\ tokenUsage[1].input = 0

\* C21: no participant's input or output count ever decreases, and every
\* step adds to the table exactly the estimates of the calls that resolved in
\* it (input text and response of each), so that the table of the result is,
\* per participant, the sum of what was recorded for it.
\* The calls whose estimates a step records: participant and input length.
RecordedBy(from, to) ==
  IF to = "failed" \/ from = "failed" THEN {}
  ELSE CASE from = "analyze" -> {<<Analyzer, TextChars + TextChars>>}
         [] from = "qaCall" -> {<<qaTarget, TextChars>>}
         [] from = "runCall" -> {<<idx, inputLength(reviewerTasks[idx])>>}
         [] from = "parallel" /\ to = "check" ->
              {<<r, inputLength(reviewerTasks[r])>> : r \in Reviewers}
         [] from = "summaryCall" -> {<<idx, inputLength(summaryTasks[idx])>>}
         [] from = "conclusion" ->
              {<<Summarizer, TextChars * (1 + Len(summaries)) + TextChars>>}
         [] OTHER -> {}

C21_TokensAccumulate ==
  [][\A p \in Participants :
       /\ tokenUsage'[p].input >= tokenUsage[p].input
       /\ tokenUsage'[p].output >= tokenUsage[p].output
       /\ LET rec == {c \in RecordedBy(pc, pc') : c[1] = p} IN
          IF rec = {} THEN tokenUsage'[p] = tokenUsage[p]
          ELSE /\ Cardinality(rec) = 1
               /\ \A c \in rec :
                    /\ tokenUsage'[p].input = tokenUsage[p].input + estimateTokens(c[2])
                    /\ tokenUsage'[p].output = tokenUsage[p].output + estimateTokens(TextChars)
    ]_vars

\* C21 witness: a run has ended with a result after two rounds and a judge
\* call; the reviewer's counts hold three calls, the summarizer's the
\* conclusion alone.
C21_Witness ==
  /\ pc = "done"
  /\ JudgeWasCalled
  /\ tokenUsage[1].output = 3 * estimateTokens(TextChars)
  /\ tokenUsage[Summarizer].output = estimateTokens(TextChars)
  /\ tokenUsage[Analyzer].input = estimateTokens(TextChars + TextChars)

\* C22: a run that ends with a result returns, in run as in runStreaming,
\* the History runStreaming builds for the same options, the same answers of
\* the provider and the same verdicts: the Turns of the Q&A phase, then round
\* by round the interjection, if the provider gave one at the start of the
\* round, followed by one Turn of every reviewer, up to the round of the
\* quit, of the convergence, or maxRounds.
FirstAnswer(k) ==
  LET of == {i \in Answers : log[i].round = k} IN
  IF of = {} THEN "nothing" ELSE log[Least(of)].kind

RECURSIVE StreamedFrom(_, _)
StreamedFrom(k, h) ==
  IF k > maxRounds \/ FirstAnswer(k) = "quit" THEN h
  ELSE LET h1 == IF FirstAnswer(k) = "interject" THEN Append(h, HumanTurn(h)) ELSE h
           h2 == h1 \o [r \in Reviewers |-> RoundTurn(r, k)]
       IN IF convergedAtRound = k THEN h2 ELSE StreamedFrom(k + 1, h2)

QATurns == SelectSeq(conversationHistory, LAMBDA t : t.content.src \in {"question", "qa"})

C22_RunMatchesStreaming ==
  pc = "done" =>
    /\ conversationHistory = StreamedFrom(1, QATurns)
    /\ summaries = [r \in Reviewers |-> r]

\* C23: once the summary phase is over there is exactly one summary per
\* reviewer, in the order of this.reviewers, each the response to the one
\* summary call made to that reviewer's agent, and the summarizer is called
\* once, with a prompt that counts N summaries and holds exactly these, in
\* that order, each labelled by its position, and that renders no reviewer id.
SummaryCalls == {i \in LogIndexes : log[i].kind = "summary"}
ConclusionCalls == {i \in LogIndexes : log[i].kind = "conclusion"}

C23_SummariesInOrder ==
  pc \in {"conclusion", "done"} =>
    /\ Len(summaries) = NumReviewers
    /\ \A r \in Reviewers :
         /\ summaries[r] = r
         /\ Cardinality({i \in SummaryCalls : log[i].who = r}) = 1
    /\ \A i, j \in SummaryCalls : i < j => log[i].who < log[j].who
    /\ Cardinality(ConclusionCalls) = 1
    /\ finalPrompt.count = NumReviewers
    /\ Len(finalPrompt.parts) = NumReviewers
    /\ \A i \in Reviewers :
         /\ finalPrompt.parts[i].label = i
         /\ finalPrompt.parts[i].text = SummaryText(summaries[i])
    /\ finalPrompt.names = {}

\* C23 witness: a run of two rounds has returned its result.
C23_Witness ==
  /\ pc = "done"
  /\ round = 2
  /\ Len(summaries) = NumReviewers
  /\ Len(finalPrompt.parts) = NumReviewers
  /\ Len(conversationHistory) = 2 * NumReviewers

\* C24: from the end of the round loop on, no step changes History or a
\* cursor: the summaries and the conclusion are never appended as Turns, and
\* the History of the result is the History the round loop left.
C24_SummaryPhaseFrame ==
  [][(pc \in {"summaries", "summaryCall", "conclusion", "done"}) =>
       UNCHANGED <<conversationHistory, lastSeenIndex>>
    ]_vars

\* C24 witness: every summary is in and the summarizer is being asked, while
\* History ends with the last reviewer's Turn of the last round, on which
\* that reviewer's cursor still stands.
C24_Witness ==
  /\ pc = "conclusion"
  /\ Len(summaries) = NumReviewers
  /\ Len(conversationHistory) > NumReviewers
  /\ conversationHistory[Len(conversationHistory)] = RoundTurn(NumReviewers, round)
  /\ lastSeenIndex[NumReviewers] = Len(conversationHistory) - 1

\* C25: History is append-only: in every step the History before is a
\* prefix of the History after, and an interjection of the human is appended
\* as one Turn of the same shape as a reviewer's, with reviewerId 'user'.
IsPrefix(a, b) == Len(a) <= Len(b) /\ SubSeq(b, 1, Len(a)) = a

C25_HistoryAppendOnly ==
  [][/\ IsPrefix(conversationHistory, conversationHistory')
     /\ (interjections' # interjections) =>
          /\ Len(conversationHistory') = Len(conversationHistory) + 1
          /\ conversationHistory'[Len(conversationHistory')].reviewerId = Human
          /\ conversationHistory'[Len(conversationHistory')].content.src = "human"
          /\ DOMAIN conversationHistory'[Len(conversationHistory')]
               = DOMAIN RoundTurn(1, 1)
    ]_vars

\* C25 witness: a human interjection stands in History between the Turns of
\* two rounds.
C25_Witness ==
  \E i \in 2..(Len(conversationHistory) - 1) :
    /\ conversationHistory[i].content.src = "human"
    /\ IsRoundTurn(conversationHistory[i - 1])
    /\ IsRoundTurn(conversationHistory[i + 1])

\* C26 (as stated): whatever callbacks are supplied and whatever they
\* return, a run makes the agent calls and returns the result of the run
\* without any callback: no Q&A call, the reviewers' Turns of the rounds 1 to
\* the last one (the round of convergence, or maxRounds) and nothing else.
LastRound == IF convergedAtRound # 0 THEN convergedAtRound ELSE maxRounds

RECURSIVE RoundsUpTo(_)
RoundsUpTo(k) ==
  IF k = 0 THEN <<>> ELSE RoundsUpTo(k - 1) \o [r \in Reviewers |-> RoundTurn(r, k)]

ProviderAnswers == SelectSeq(log, LAMBDA e : e.kind \in {"quit", "interject", "nothing"})

\* run, replayed on the provider's answers: round k, reviewer r, a answers used.
RECURSIVE RunFrom(_, _, _, _)
RunFrom(k, r, a, h) ==
  IF k > maxRounds THEN h
  ELSE LET answer == IF interactive /\ a < Len(ProviderAnswers)
                     THEN ProviderAnswers[a + 1].kind ELSE "nothing"
           used == IF interactive THEN a + 1 ELSE a
           ended == r > NumReviewers \/ answer = "quit"
       IN IF ended
          THEN IF convergedAtRound = k THEN h
               ELSE RunFrom(k + 1, 1, (IF r > NumReviewers THEN a ELSE used), h)
          ELSE RunFrom(k, r + 1, used,
                       Append(Interjected(h, (IF answer = "interject" THEN "text" ELSE "null")),
                              RoundTurn(r, k)))

RoundTurnsInOrder == SelectSeq(conversationHistory, IsRoundTurn)
RoundCallsInOrder == SelectSeq(log, LAMBDA e : e.kind = "round")

RankAt(h, i) == Cardinality({j \in 1..i : h[j].reviewerId = h[i].reviewerId})

Qualifying(h, r) ==
  {i \in 1..Len(h) :
     \/ h[i].reviewerId = Human
     \/ h[i].reviewerId \notin {r, Human} /\ RankAt(h, i) = CountBy(h, r)}

ContinueRequest == <<Message("user", "continue", {}, <<>>, FALSE)>>

C27_RequestNeverEmpty ==
  pc = "built" =>
    \A r \in Reviewers :
      /\ Len(reviewerTasks[r]) >= 1
      /\ reviewerTasks[r][1].role = "user"
      /\ (hasSession[r] /\ ~isFirstCall(r)) =>
           (reviewerTasks[r] = ContinueRequest
              <=> Qualifying(conversationHistory, r) = {})

\* C27 witness: a session-backed reviewer with a Turn of its own and a set
\* cursor has been built the continue instruction, the other reviewer
\* having said nothing.
C27_Witness ==
  /\ pc = "built"
  /\ \E r \in Reviewers :
       /\ hasSession[r] /\ ~isFirstCall(r)
       /\ CountBy(conversationHistory, r) = Len(conversationHistory)
       /\ Len(conversationHistory) >= 2
       /\ reviewerTasks[r] = ContinueRequest

\* C28: a session-backed reviewer that is past its first call is sent, in a
\* round or for its summary, only Turns that stand in History strictly after
\* its cursor, and none of its own.
\* The request of reviewer r whose call is unresolved (its cursor is still the
\* one the request was built with).
RequestInFlight(r) ==
  IF pc \in {"launch", "parallel"} \/ (pc = "runCall" /\ r = idx) THEN reviewerTasks[r]
  ELSE IF pc = "summaryCall" /\ r = idx THEN summaryTasks[r]
  ELSE NoRequest

IndexOf(t) == CHOOSE i \in 1..Len(conversationHistory) : conversationHistory[i] = t

C28_SessionSendsOnlyNew ==
  \A r \in Reviewers :
    (hasSession[r] /\ RequestInFlight(r) # NoRequest
       /\ RequestInFlight(r)[1].kind # "first") =>
      \A t \in TurnsIn(RequestInFlight(r)) :
        /\ t.reviewerId # r
        /\ IndexOf(t) - 1 > lastSeenIndex[r]

\* C29: whenever a request is built for a session-backed reviewer past its
\* first call, the Turns of other reviewers carried by all its requests so
\* far are exactly those the non-session rule would put in one request built
\* from the same History.
NonSessionWouldShow(r) ==
  ByOthers(r, SeqToSet(previousRoundsMessages(conversationHistory, r,
                                              myMessageCount(conversationHistory, r))))

C29_SessionLosesNothing ==
  \A r \in Reviewers :
    (hasSession[r] /\ RequestInFlight(r) # NoRequest
       /\ RequestInFlight(r)[1].kind # "first") =>
      ByOthers(r, delivered[r]) = NonSessionWouldShow(r)

\* C30: once the summary request of a reviewer is built, every Turn another
\* reviewer committed in a round, that of the last executed round included,
\* is visible to it: carried by the summary request, or, for a session-backed
\* reviewer, by that or an earlier request.
VisibleForSummary(r) ==
  IF hasSession[r] THEN delivered[r] ELSE TurnsIn(summaryTasks[r])

C30_SummarySeesWholeDebate ==
  \A r \in Reviewers : summaryTasks[r] # NoRequest =>
    \A i \in RoundTurnIndexes :
      conversationHistory[i].reviewerId # r =>
        conversationHistory[i] \in VisibleForSummary(r)

\* C31: a reviewer's cursor is unseen exactly when History holds no Turn of
\* that reviewer; otherwise it is the index of a Turn of History, that Turn
\* is the reviewer's, and no later Turn is.  No step lowers a cursor except
\* the start of a call of run or runStreaming, which clears them all.
OwnIndexes(r) ==
  {i \in 1..Len(conversationHistory) : conversationHistory[i].reviewerId = r}

CursorsOnLatestOwnTurn ==
  \A r \in Reviewers :
    IF OwnIndexes(r) = {} THEN lastSeenIndex[r] = 0 - 1
    ELSE /\ lastSeenIndex[r] + 1 \in OwnIndexes(r)
         /\ \A i \in OwnIndexes(r) : i <= lastSeenIndex[r] + 1

C31_CursorOnLatestOwnTurn ==
  [][/\ CursorsOnLatestOwnTurn
     /\ CursorsOnLatestOwnTurn'
     /\ (\E r \in Reviewers : lastSeenIndex'[r] < lastSeenIndex[r]) =>
          /\ runs' = runs + 1
          /\ pc' = "analyze"
          /\ \A r \in Reviewers : lastSeenIndex'[r] = 0 - 1
    ]_vars

\* C31 witness: in a second call on the instance, the first reviewer's
\* cursor stands on its Turn of round 2, behind a human interjection, while
\* the last reviewer's cursor is still on its Turn of round 1.
C31_Witness ==
  /\ runs = 2
  /\ mode = "run"
  /\ pc = "runNext"
  /\ round = 2
  /\ interjections = 1
  /\ lastSeenIndex[1] = Len(conversationHistory) - 1
  /\ lastSeenIndex[1] > NumReviewers
  /\ lastSeenIndex[NumReviewers] = NumReviewers - 1

\* C32: whenever a request is built for a reviewer, for a round or for its
\* summary, every Turn of another reviewer that this or an earlier request
\* of the reviewer carries is among the first m Turns of its author, m being
\* the number of Turns the reviewer itself has in History: no reviewer is
\* shown the k-th Turn of another before its own k-th Turn is committed.
RankOf(t) ==
  Cardinality({k \in 1..IndexOf(t) : conversationHistory[k].reviewerId = t.reviewerId})

NotAheadOfOwnTurns(r) ==
  \A t \in ByOthers(r, delivered[r]) :
    RankOf(t) <= myMessageCount(conversationHistory, r)

C32_NeverShownAhead ==
  [][\A r \in Reviewers :
       delivered'[r] # delivered[r] => NotAheadOfOwnTurns(r)'
    ]_vars

\* C32 witness: in round 2, after a question to the last reviewer, the first
\* reviewer has one Turn of its own and its request carries the last
\* reviewer's first Turn, the answer, and not that reviewer's Turn of round 1.
C32_Witness ==
  /\ round = 2
  /\ pc \in {"parallel", "runCall"}
  /\ qaCount = 1
  /\ myMessageCount(conversationHistory, 1) = 1
  /\ \E t \in TurnsIn(reviewerTasks[1]) :
       t.reviewerId = NumReviewers /\ t.content.src = "qa"
  /\ RoundTurn(NumReviewers, 1) \in Committed
  /\ RoundTurn(NumReviewers, 1) \notin delivered[1]

\* C33: while the call of a reviewer for a round is unresolved, the request
\* it was built carries every human Turn of History (each was appended
\* before the request was built), in round 1 as in every later round, for
\* session-backed and non-session reviewers alike.
HumanTurns == {t \in Committed : t.reviewerId = Human}

RoundRequestInFlight(r) ==
  IF pc \in {"launch", "parallel"} \/ (pc = "runCall" /\ r = idx)
  THEN reviewerTasks[r] ELSE NoRequest

C33_HumanTurnsReachEveryRequest ==
  \A r \in Reviewers :
    RoundRequestInFlight(r) # NoRequest =>
      HumanTurns \subseteq TurnsIn(RoundRequestInFlight(r))

\* C34: in runStreaming the statuses of a round start all pending; while the
\* round's batch is open a status changes only from pending to thinking or
\* from thinking to done; every snapshot handed to onParallelStatus holds one
\* entry per reviewer, in the order of this.reviewers; and when the batch is
\* handed on to the commit loop every status is done.
StatusStep(from, to) ==
  \/ from = "pending" /\ to = "thinking"
  \/ from = "thinking" /\ to = "done"

C34_StatusesMoveForward ==
  [][mode = "stream" =>
       /\ (pc = "streamRound" /\ pc' = "launch") =>
            \A r \in Reviewers : statuses'[r] = "pending"
       /\ pc \in {"launch", "parallel", "failed"} =>
            \A r \in Reviewers :
              statuses'[r] # statuses[r] => StatusStep(statuses[r], statuses'[r])
       /\ emitted'.status # emitted.status =>
            /\ DOMAIN statuses' = 1..NumReviewers
            /\ \A r \in Reviewers : statuses'[r] \in {"pending", "thinking", "done"}
       /\ (pc = "parallel" /\ pc' = "check") =>
            \A r \in Reviewers : statuses[r] = "done" /\ statuses'[r] = "done"
    ]_vars

\* C34 witness: the batch of round 2 is open with the event callbacks
\* supplied: the last reviewer is done, the first is still thinking, and a
\* snapshot was handed over at every change.
C34_Witness ==
  /\ mode = "stream"
  /\ observed
  /\ round = 2
  /\ pc = "parallel"
  /\ statuses[1] = "thinking"
  /\ statuses[NumReviewers] = "done"
  /\ emitted.status >= 2 * (NumReviewers + 1) + NumReviewers + 1

\* C35: in a run that has returned its result the agent calls stand in the
\* order of the phases: the analyzer call, one, first of all; the Q&A calls
\* (runStreaming only); the reviewer calls of the rounds, a judge call after
\* round k standing behind every call of the rounds up to k and before every
\* call of a later round; one summary call per reviewer; and one conclusion
\* call, the last entry of the log.
AgentCalls ==
  {i \in LogIndexes :
     log[i].kind \in {"analyze", "qa", "round", "judge", "summary", "conclusion"}}

Phase(e) ==
  CASE e.kind = "analyze" -> 1
    [] e.kind = "qa" -> 2
    [] e.kind \in {"round", "judge"} -> 3
    [] e.kind = "summary" -> 4
    [] e.kind = "conclusion" -> 5

C35_CallsFollowPhases ==
  pc = "done" =>
    /\ log[1].kind = "analyze"
    /\ \A i \in AgentCalls :
         /\ log[i].kind = "analyze" => i = 1
         /\ log[i].kind = "qa" => mode = "stream"
         /\ \A j \in AgentCalls : i < j => Phase(log[i]) <= Phase(log[j])
         /\ log[i].kind = "judge" =>
              \A j \in RoundCalls :
                IF j < i THEN log[j].round <= log[i].round
                ELSE log[j].round > log[i].round
    /\ \A r \in Reviewers : Cardinality({i \in SummaryCalls : log[i].who = r}) = 1
    /\ ConclusionCalls = {Len(log)}

\* C35 witness: runStreaming has returned after a question, three rounds and
\* a judge call after the second.
C35_Witness ==
  /\ pc = "done"
  /\ mode = "stream"
  /\ qaCount = 1
  /\ round = 3
  /\ judgeCalls[2] = 1
  /\ Cardinality(RoundCalls) = 3 * NumReviewers

\* C36: a call of run or runStreaming on an instance that has been used
\* before starts, like a call on a new instance, from an empty History, an
\* empty token table and unseen cursors, with the analyzer call as its first;
\* every request it has in flight is the one built from its own History and
\* cursors, after its own pre-analysis was stored; and the History and the token
\* counts of its result are those fixed by its own calls, provider answers
\* and verdicts.
CallsOf(p) ==
  Cardinality({i \in LogIndexes :
                 log[i].who = p /\ log[i].kind \in {"qa", "round", "summary"}})

ResultOfThisCallAlone ==
  /\ conversationHistory =
       IF mode = "stream" THEN StreamedFrom(1, QATurns) ELSE RunFrom(1, 1, 0, <<>>)
  /\ tokenUsage[Analyzer] = [input |-> estimateTokens(TextChars + TextChars),
                             output |-> estimateTokens(TextChars)]
  /\ tokenUsage[Summarizer].output = estimateTokens(TextChars)
  /\ \A r \in Reviewers :
       tokenUsage[r].output = CallsOf(r) * estimateTokens(TextChars)
  /\ \A r \in Reviewers : summaryTasks[r] = SummaryMessages(conversationHistory, r)

RequestsOfThisCallAlone ==
  \A r \in Reviewers :
    RequestInFlight(r) # NoRequest =>
      /\ analysis = runs
      /\ RequestInFlight(r) =
           IF pc = "summaryCall" THEN SummaryMessages(conversationHistory, r)
           ELSE buildMessages(conversationHistory, r)

C36_SecondCallStartsFresh ==
  /\ [](RequestsOfThisCallAlone /\ (pc = "done" => ResultOfThisCallAlone))
  /\ [][runs' # runs =>
          /\ conversationHistory' = <<>>
          /\ tokenUsage' = NoUsage
          /\ \A r \in Reviewers : lastSeenIndex'[r] = 0 - 1
          /\ log' = <<Event("analyze", Analyzer, 0)>>
          /\ summaries' = <<>> /\ convergedAtRound' = 0
      ]_vars

\* C36 witness: run has returned the result of two rounds on an instance
\* whose previous call had returned or thrown.
C36_Witness ==
  /\ runs = 2
  /\ pc = "done"
  /\ mode = "run"
  /\ round = 2
  /\ Len(conversationHistory) = 2 * NumReviewers
  /\ tokenUsage[1].output = 3 * estimateTokens(TextChars)

\* C37: in runStreaming every provider that has the session lifecycle (each
\* session-backed reviewer's, the analyzer's, the summarizer's) has had its
\* session started once by the time the first agent call is out, and its
\* session is ended once, exactly when the call of runStreaming is over,
\* with a result or with an error thrown by an agent call, and not before;
\* no session is started or ended on any other provider, nor by run.
Finished == pc \in {"done", "failed"}

C37_SessionsStartedAndEndedOnce ==
  \A p \in Participants :
    IF mode = "stream" /\ hasLifecycle(p)
    THEN /\ Len(log) >= 1 => sessions[p].started = 1
         /\ sessions[p].ended = IF Finished THEN 1 ELSE 0
    ELSE sessions[p] = [started |-> 0, ended |-> 0]

\* C37 witness: runStreaming has failed on a reviewer's call in the batch of
\* round 2; the first reviewer is session-backed, the last is not, and every
\* session started has been ended once.
C37_Witness ==
  /\ mode = "stream"
  /\ pc = "failed"
  /\ round = 2
  /\ LastEvent.kind = "fail" /\ LastEvent.who \in Reviewers
  /\ hasSession[1] /\ ~hasSession[NumReviewers]
  /\ sessions[1] = [started |-> 1, ended |-> 1]
  /\ sessions[NumReviewers] = [started |-> 0, ended |-> 0]
  /\ sessions[Analyzer].ended = 1 /\ sessions[Summarizer].ended = 1

\* C38: no reviewer's session has been ended while a call of runStreaming to
\* that reviewer's agent is unresolved: when endSession has been called,
\* every call of the current round's batch has resolved or has thrown, also
\* in a batch in which another reviewer's call has thrown.
\* The call to reviewer r, issued in the current batch, has neither resolved
\* nor thrown.
Unresolved(r) ==
  /\ pc \in {"parallel", "failed"}
  /\ statuses[r] = "thinking"
  /\ ~(LastEvent.kind = "fail" /\ LastEvent.who = r)

C38_NoSessionEndedUnderACall ==
  \A r \in Reviewers : sessions[r].ended > 0 => ~Unresolved(r)

\* C39: when every agent call resolves and the providers answer, the Q&A
\* provider at some time with the signal to proceed, the run returns its
\* result; and at no time has it entered more than maxRounds rounds, issued
\* more than maxRounds x N reviewer calls for rounds, or more than
\* maxRounds - 1 judge calls.
JudgeCallsMade == {i \in LogIndexes : log[i].kind = "judge"}

WithinBounds ==
  /\ round <= maxRounds
  /\ Cardinality(RoundCalls) <= maxRounds * NumReviewers
  /\ Cardinality(JudgeCallsMade) <= maxRounds - 1

C39_ReturnsWithinBounds ==
  /\ <>(pc = "done")
  /\ []WithinBounds

\* C39 witness: a run of the greatest number of rounds has returned its
\* result after a question, an interjection and a judge call.
C39_Witness ==
  /\ pc = "done"
  /\ maxRounds = MaxRoundsBound
  /\ round = MaxRoundsBound
  /\ qaCount = 1
  /\ interjections = 1
  /\ Cardinality(RoundCalls) = MaxRoundsBound * NumReviewers
  /\ Cardinality(JudgeCallsMade) >= 1

====
